---- MODULE Spec2Model ----
(***************************************************************************)
(* A model of miniserde-ditto's CBOR codec: cbor::to_vec / to_writer,      *)
(* cbor::from_slice / from_slice_impl / recurse_checked, the dynamic       *)
(* cbor::Value with its canonical ordering and its drop, the conversions   *)
(* of cbor::number::i65, json::to_string, and the Deserialize visitors the *)
(* decoder drives, those of #[derive(Deserialize)] included.               *)
(*                                                                         *)
(* Representation.  TLC integers are 32 bits wide, the program's are 64    *)
(* and 128 bits wide, so an i128 is the pair <<negative, magnitude>> with  *)
(* the magnitude a big-endian sequence of base-256 digits without leading  *)
(* zeros (zero is << >>).  The magnitudes the model adds to or negates are *)
(* below 2^80, so i128 arithmetic never overflows; i128::MIN and i128::MAX *)
(* are only compared.  A byte string, a text string and an                 *)
(* encoded output are sequences of bytes 0..255; an f64 is its 8 bytes.    *)
(* A value is a tuple whose first element names its variant.               *)
(***************************************************************************)
EXTENDS Integers, Sequences, FiniteSets, TLC

VARIABLES
    \* cbor::from_slice
    bytes,      \* the input slice
    ty,         \* the Deserialize target type T
    orig,       \* <<form, v>>: how bytes was made and the value it stands for
    cursor,     \* index of the next unread byte (the slice iterator)
    CUR_DEPTH,  \* the thread-local depth counter of recurse_checked
    stack,      \* the suspended from_slice_impl calls, innermost last
    pc,         \* where the decoder is
    vty,        \* the type behind the visitor the next item is fed to
    ret,        \* what the from_slice_impl call that just returned gave
    nesting,    \* the most containers around an item of this call so far
    result,     \* what from_slice returned
    \* cbor::to_vec
    ser_in,     \* the value handed to to_vec
    ser_out,    \* what to_vec returned
    \* Value::cmp
    cmp_in,     \* the values compared
    cmp_out,    \* the orderings Value::cmp returned
    \* drop
    drop_in,    \* the value that is dropped
    calls,      \* the native calls in progress, innermost last
    popped,     \* the paths of the values stack.pop() returned, in order
    \* json::to_string, step by step
    json,       \* [pc, fragment, stack, out]: where to_string is and its locals
    \* cbor::number
    num         \* [fn, x, out, back]: the i65 conversion called, its argument and results

deVars == <<bytes, ty, orig, cursor, CUR_DEPTH, stack, pc, vty, ret, nesting, result>>
serVars == <<ser_in, ser_out>>
cmpVars == <<cmp_in, cmp_out>>
dropVars == <<drop_in, calls, popped>>
vars == <<bytes, ty, orig, cursor, CUR_DEPTH, stack, pc, vty, ret, nesting, result,
          ser_in, ser_out, cmp_in, cmp_out, drop_in, calls, popped, json, num>>

\* no conversion has been called
NumIdle == [fn |-> "none", x |-> <<>>, out |-> <<>>, back |-> <<>>]

\* no json::to_string call is running
JsonIdle == [pc |-> "idle", fragment |-> <<>>, stack |-> <<>>, out |-> <<>>]

None == <<"None">>
Some(v) == <<"Some", v>>

(***************************************************************************)
(* Byte sequences and wide integers                                        *)
(***************************************************************************)

SetMin(S) == CHOOSE x \in S : \A y \in S : x <= y
SetMax(S) == CHOOSE x \in S : \A y \in S : x >= y

\* the one element of a singleton set
The(S) == CHOOSE x \in S : TRUE

NatCmp(a, b) == IF a < b THEN "Less" ELSE IF a > b THEN "Greater" ELSE "Equal"

\* <[u8] as Ord>::cmp, also str::cmp: lexicographic, a proper prefix is less.
LexCmp(a, b) ==
    LET n == IF Len(a) < Len(b) THEN Len(a) ELSE Len(b)
        D == {i \in 1..n : a[i] # b[i]}
    IN  IF D = {} THEN NatCmp(Len(a), Len(b))
        ELSE NatCmp(a[SetMin(D)], b[SetMin(D)])

StripZeros(bs) ==
    LET K == {i \in 1..Len(bs) : bs[i] # 0}
    IN  IF K = {} THEN <<>> ELSE SubSeq(bs, SetMin(K), Len(bs))

\* uN::to_be_bytes of a magnitude that fits w bytes
PadZeros(mag, w) == [i \in 1..(w - Len(mag)) |-> 0] \o mag

\* a native length (usize) as a magnitude
NatMag(n) ==
    StripZeros(<<n \div 16777216, (n \div 65536) % 256, (n \div 256) % 256, n % 256>>)

MagCmp(a, b) == IF Len(a) # Len(b) THEN NatCmp(Len(a), Len(b)) ELSE LexCmp(a, b)

MagInc(m) ==
    LET K == {i \in 1..Len(m) : m[i] # 255}
    IN  IF K = {} THEN <<1>> \o [i \in 1..Len(m) |-> 0]
        ELSE [i \in 1..Len(m) |->
                IF i < SetMax(K) THEN m[i] ELSE IF i = SetMax(K) THEN m[i] + 1 ELSE 0]

\* m - 1, for m > 0
MagDec(m) ==
    LET k == SetMax({i \in 1..Len(m) : m[i] # 0})
    IN  StripZeros([i \in 1..Len(m) |->
                      IF i < k THEN m[i] ELSE IF i = k THEN m[i] - 1 ELSE 255])

\* whether the magnitude is at most the native number n, and its native value
MagLeqNat(m, n) == Len(m) <= 3 /\ (LET p == PadZeros(m, 3) IN p[1] * 65536 + p[2] * 256 + p[3] <= n)
MagToNat(m) == LET p == PadZeros(m, 3) IN p[1] * 65536 + p[2] * 256 + p[3]

U64_MAX == [i \in 1..8 |-> 255]
TWO_POW_64 == <<1>> \o [i \in 1..8 |-> 0]

IntOf(neg, mag) == <<neg, mag>>
IsNeg(i) == i[1]
Abs(i) == i[2]

(***************************************************************************)
(* cbor::number: the 65-bit integer i65                                    *)
(***************************************************************************)

I64_MAX == <<127>> \o [i \in 1..7 |-> 255]
I64_MIN == IntOf(TRUE, MagInc(I64_MAX))
I128_MAX == <<127>> \o [i \in 1..15 |-> 255]
I128_MIN == IntOf(TRUE, MagInc(I128_MAX))

\* a.cmp(&b) of two i128
I128Cmp(a, b) ==
    IF IsNeg(a) # IsNeg(b) THEN (IF IsNeg(a) THEN "Less" ELSE "Greater")
    ELSE IF IsNeg(a) THEN MagCmp(Abs(b), Abs(a))
    ELSE MagCmp(Abs(a), Abs(b))

I128Leq(a, b) == I128Cmp(a, b) # "Greater"
I128Lt(a, b) == I128Cmp(a, b) = "Less"

\* -x, for x above i128::MIN
I128Neg(x) == IF Abs(x) = <<>> THEN x ELSE IntOf(~IsNeg(x), Abs(x))

\* x + 1, for x below i128::MAX
I128Inc(x) ==
    IF IsNeg(x) THEN (LET m == MagDec(Abs(x)) IN IntOf(m # <<>>, m))
    ELSE IntOf(FALSE, MagInc(Abs(x)))

\* `x as u64` of an i64 or i128: the low 64 bits of its two's complement
as_u64(x) ==
    LET low == SubSeq(PadZeros(Abs(x), 16), 9, 16)
        flipped == [i \in 1..8 |-> 255 - low[i]]
        inc == MagInc(flipped)
    IN  IF ~IsNeg(x) THEN StripZeros(low)
        ELSE StripZeros(SubSeq(inc, Len(inc) - 7, Len(inc)))

\* i64::wrapping_neg
wrapping_neg(x) == IF x = I64_MIN THEN x ELSE I128Neg(x)

i65(negative, abs) == [negative |-> negative, abs |-> abs]
i65_ZERO == i65(FALSE, <<>>)
i65_MIN == i65(TRUE, <<>>)
i65_MAX == i65(FALSE, U64_MAX)

Ok(v) == <<"Ok", v>>
ErrUnit == <<"Err">>

\* the conversion without the arm of the niche
i65_to_i128_no_niche(v) ==
    IF ~v.negative THEN IntOf(FALSE, v.abs)
    ELSE I128Neg(IntOf(FALSE, v.abs))

\* number::i65_to_i128, also <i128 as From<i65>>::from
i65_to_i128(v) ==
    IF v = i65_MIN THEN I128Neg(I128Inc(IntOf(FALSE, U64_MAX)))
    ELSE IF ~v.negative THEN IntOf(FALSE, v.abs)
    ELSE I128Neg(IntOf(FALSE, v.abs))

\* the constants MIN, MIN_PLUS_1 and MAX of try_from
TRY_FROM_MIN == i65_to_i128(i65_MIN)
TRY_FROM_MIN_PLUS_1 == I128Inc(i65_to_i128(i65_MIN))
TRY_FROM_MAX == i65_to_i128(i65_MAX)

\* <i65 as TryFrom<i128>>::try_from
i65_try_from(x) ==
    CASE x = TRY_FROM_MIN -> Ok(i65_MIN)
      [] x # TRY_FROM_MIN /\ I128Leq(TRY_FROM_MIN_PLUS_1, x) /\ IsNeg(x) ->
            Ok(i65(TRUE, as_u64(I128Neg(x))))
      [] x # TRY_FROM_MIN /\ ~IsNeg(x) /\ I128Leq(x, TRY_FROM_MAX) ->
            Ok(i65(FALSE, as_u64(x)))
      [] OTHER -> ErrUnit

\* <i65 as From<u64>>::from
i65_from_u64(abs) == i65(FALSE, abs)

\* <i65 as From<i64>>::from
i65_from_i64(x) ==
    CASE x = I64_MIN -> i65(TRUE, MagInc(I64_MAX))
      [] x # I64_MIN /\ IsNeg(x) -> i65(TRUE, as_u64(wrapping_neg(x)))
      [] Abs(x) = <<>> -> i65(FALSE, <<>>)
      [] OTHER -> i65(FALSE, as_u64(x))

(***************************************************************************)
(* cbor::Value                                                             *)
(***************************************************************************)

Null == <<"Null">>
Bool(b) == <<"Bool", b>>
Integer(i) == <<"Integer", i>>
Float(f) == <<"Float", f>>
Bytes(bs) == <<"Bytes", bs>>
Text(s) == <<"Text", s>>
Array(a) == <<"Array", a>>
Map(m) == <<"Map", m>>       \* m: the entries <<key, value>> in key order
Tag(t, v) == <<"Tag", t, v>>

Kind(v) == v[1]

\* a major_type that forgets the sign of an integer
major_type_unsigned(v) ==
    CASE Kind(v) = "Null" -> 7
      [] Kind(v) = "Bool" -> 7
      [] Kind(v) = "Integer" -> 0
      [] Kind(v) = "Tag" -> 6
      [] Kind(v) = "Float" -> 7
      [] Kind(v) = "Bytes" -> 2
      [] Kind(v) = "Text" -> 3
      [] Kind(v) = "Array" -> 4
      [] Kind(v) = "Map" -> 5

major_type(v) ==
    CASE Kind(v) = "Null" -> 7
      [] Kind(v) = "Bool" -> 7
      [] Kind(v) = "Integer" -> IF ~IsNeg(v[2]) THEN 0 ELSE 1
      [] Kind(v) = "Tag" -> 6
      [] Kind(v) = "Float" -> 7
      [] Kind(v) = "Bytes" -> 2
      [] Kind(v) = "Text" -> 3
      [] Kind(v) = "Array" -> 4
      [] Kind(v) = "Map" -> 5

(***************************************************************************)
(* IEEE 754 binary16 / binary32 / binary64, as sequences of bits           *)
(***************************************************************************)

Zeros(n) == [i \in 1..n |-> 0]
Ones(n) == [i \in 1..n |-> 1]
AllZero(b) == \A i \in 1..Len(b) : b[i] = 0

BitsOf(bs) ==
    [k \in 1..(8 * Len(bs)) |->
        (bs[((k - 1) \div 8) + 1] \div (2 ^ (7 - ((k - 1) % 8)))) % 2]

RECURSIVE BitsNat(_)
BitsNat(b) ==
    IF b = <<>> THEN 0 ELSE 2 * BitsNat(SubSeq(b, 1, Len(b) - 1)) + b[Len(b)]

NatBits(n, w) == [k \in 1..w |-> (n \div (2 ^ (w - k))) % 2]

BytesOfBits(b) == [i \in 1..(Len(b) \div 8) |-> BitsNat(SubSeq(b, 8 * i - 7, 8 * i))]

\* f64::from(f16) and f64::from(f32): the exact widening of a float of eb
\* exponent bits and mb mantissa bits (a NaN comes out quiet)
Widen(b, eb, mb) ==
    LET s == b[1]
        e == BitsNat(SubSeq(b, 2, 1 + eb))
        m == SubSeq(b, 2 + eb, 1 + eb + mb)
        bias == 2 ^ (eb - 1) - 1
    IN  IF e = 0 /\ AllZero(m) THEN <<s>> \o Zeros(63)
        ELSE IF e = 2 ^ eb - 1 THEN
            IF AllZero(m) THEN <<s>> \o Ones(11) \o Zeros(52)
            ELSE <<s>> \o Ones(11) \o <<1>> \o Tail(m) \o Zeros(52 - mb)
        ELSE IF e = 0 THEN
            LET p == SetMin({i \in 1..mb : m[i] = 1})
            IN  <<s>> \o NatBits(1023 + (1 - bias) - p, 11)
                    \o SubSeq(m, p + 1, mb) \o Zeros(52 - (mb - p))
        ELSE <<s>> \o NatBits(e - bias + 1023, 11) \o m \o Zeros(52 - mb)

\* f16::from_f64 and `f as f32`: the narrowing of an f64, round to nearest,
\* ties to even; too large a magnitude gives infinity
Narrow(f, eb, mb) ==
    LET s == f[1]
        E == BitsNat(SubSeq(f, 2, 12))
        M == SubSeq(f, 13, 64)
        bias == 2 ^ (eb - 1) - 1
        e == E - 1023
        sig == <<1>> \o M
        shift == IF e >= 1 - bias THEN 0 ELSE (1 - bias) - e
        keep == IF shift > mb + 1 THEN 0 ELSE mb + 1 - shift
        top == BitsNat(SubSeq(sig, 1, keep))
        rest == SubSeq(sig, keep + 1, 53)
        up == /\ shift <= mb + 1
              /\ rest # <<>>
              /\ rest[1] = 1
              /\ (~AllZero(Tail(rest)) \/ top % 2 = 1)
        q0 == IF shift = 0 THEN (e + bias - 1) * (2 ^ mb) + top ELSE top
        q == q0 + (IF up THEN 1 ELSE 0)
    IN  IF E = 2047 THEN
            <<s>> \o Ones(eb) \o (IF AllZero(M) THEN Zeros(mb) ELSE <<1>> \o Zeros(mb - 1))
        ELSE IF E = 0 THEN <<s>> \o Zeros(eb + mb)
        ELSE IF e > bias THEN <<s>> \o Ones(eb) \o Zeros(mb)
        ELSE IF q >= (2 ^ eb - 1) * (2 ^ mb) THEN <<s>> \o Ones(eb) \o Zeros(mb)
        ELSE <<s>> \o NatBits(q, eb + mb)

is_infinite(f) == BitsNat(SubSeq(f, 2, 12)) = 2047 /\ AllZero(SubSeq(f, 13, 64))
is_nan(f) == BitsNat(SubSeq(f, 2, 12)) = 2047 /\ ~AllZero(SubSeq(f, 13, 64))
is_sign_positive(f) == f[1] = 0
\* f64's ==: the two zeros are equal, a NaN equals nothing
F64Eq(a, b) == (AllZero(Tail(a)) /\ AllZero(Tail(b))) \/ (a = b /\ ~is_nan(a))

(***************************************************************************)
(* cbor::to_writer and cbor::to_vec                                        *)
(***************************************************************************)

SMALL_U8_MAX == 23

\* write_u64 { major, v }.into(out): the head byte and the argument v (a
\* magnitude below 2^64) in the shortest form
\* a write_u64 without the one-byte form
write_u64_wide(major, v) ==
    LET mask == major * 32
    IN  IF v = <<>> THEN <<mask>>
        ELSE IF Len(v) = 1 /\ v[1] <= SMALL_U8_MAX THEN <<mask + v[1]>>
        ELSE IF Len(v) <= 2 THEN <<mask + (SMALL_U8_MAX + 2)>> \o PadZeros(v, 2)
        ELSE IF Len(v) <= 4 THEN <<mask + (SMALL_U8_MAX + 3)>> \o PadZeros(v, 4)
        ELSE <<mask + (SMALL_U8_MAX + 4)>> \o PadZeros(v, 8)

write_u64(major, v) ==
    LET mask == major * 32
    IN  IF v = <<>> THEN <<mask>>
        ELSE IF Len(v) = 1 /\ v[1] <= SMALL_U8_MAX THEN <<mask + v[1]>>
        ELSE IF Len(v) <= 1 THEN <<mask + (SMALL_U8_MAX + 1), v[1]>>
        ELSE IF Len(v) <= 2 THEN <<mask + (SMALL_U8_MAX + 2)>> \o PadZeros(v, 2)
        ELSE IF Len(v) <= 4 THEN <<mask + (SMALL_U8_MAX + 3)>> \o PadZeros(v, 4)
        ELSE <<mask + (SMALL_U8_MAX + 4)>> \o PadZeros(v, 8)

\* The ValueView::Int arm of to_writer
write_int(i) ==
    IF IsNeg(i) /\ MagCmp(Abs(i), TWO_POW_64) # "Greater"
        THEN [st |-> "ok", out |-> write_u64(1, MagDec(Abs(i)))]
    ELSE IF ~IsNeg(i) /\ MagCmp(Abs(i), U64_MAX) # "Greater"
        THEN [st |-> "ok", out |-> write_u64(0, Abs(i))]
    ELSE [st |-> "err", out |-> <<>>]

\* a writer of floats that knows the double width only
write_f64_double(fb) == <<251>> \o fb

\* The ValueView::F64 arms of to_writer (f: the 8 bytes of the f64)
write_f64(fb) ==
    The({IF is_infinite(f) THEN
            (IF is_sign_positive(f) THEN <<249, 124, 0>> ELSE <<249, 252, 0>>)
         ELSE IF is_nan(f) THEN <<249, 126, 0>>
         ELSE The({IF F64Eq(Widen(f_16, 5, 10), f) THEN <<249>> \o BytesOfBits(f_16)
                   ELSE IF F64Eq(Widen(f_32, 8, 23), f) THEN <<250>> \o BytesOfBits(f_32)
                   ELSE <<251>> \o fb :
                        f_16 \in {Narrow(f, 5, 10)}, f_32 \in {Narrow(f, 8, 23)}}) :
            f \in {BitsOf(fb)}})

\* Serialize::view (begin): <Value as Serialize>::view, and the views of
\* the std types of ser/impls.rs.  "Panic": unimplemented!() for a Tag.
\* A Vec of u8 is a ValueView::Bytes (u8::begin_seq); an empty Vec is taken
\* as a Vec of another element type.  Value::Bytes goes through stream_slice.
RECURSIVE view(_)
\* a view that hands out the payload of a Tag in place of the Tag
view_untagged(x) ==
    CASE Kind(x) = "u8" -> <<"Int", IntOf(FALSE, NatMag(x[2]))>>
      [] Kind(x) = "Null" -> <<"Null">>
      [] Kind(x) = "Bool" -> <<"Bool", x[2]>>
      [] Kind(x) = "Integer" -> <<"Int", x[2]>>
      [] Kind(x) = "Float" -> <<"F64", x[2]>>
      [] Kind(x) = "Bytes" -> <<"Seq", [i \in 1..Len(x[2]) |-> <<"u8", x[2][i]>>]>>
      [] Kind(x) = "Text" -> <<"Str", x[2]>>
      [] Kind(x) = "Array" -> <<"Seq", x[2]>>
      [] Kind(x) = "Map" -> <<"Map", x[2]>>
      [] Kind(x) = "Tag" -> view(x[3])
      [] Kind(x) = "unit" -> <<"Null">>
      [] Kind(x) = "bool" -> <<"Bool", x[2]>>
      [] Kind(x) = "String" -> <<"Str", x[2]>>
      [] Kind(x) = "i64" -> <<"Int", x[2]>>
      [] Kind(x) = "f64" -> <<"F64", x[2]>>
      [] Kind(x) = "Box" -> view(x[2])
      [] Kind(x) = "None" -> <<"Null">>
      [] Kind(x) = "Some" -> view(x[2])
      [] Kind(x) = "Tuple" -> <<"Seq", <<x[2], x[3]>>>>
      [] Kind(x) = "Vec" ->
            IF x[2] # <<>> /\ \A i \in 1..Len(x[2]) : Kind(x[2][i]) = "u8"
            THEN <<"Bytes", [i \in 1..Len(x[2]) |-> x[2][i][2]]>>
            ELSE <<"Seq", x[2]>>
      [] Kind(x) = "BTreeMap" -> <<"Map", x[2]>>

view(x) ==
    CASE Kind(x) = "u8" -> <<"Int", IntOf(FALSE, NatMag(x[2]))>>
      [] Kind(x) = "Null" -> <<"Null">>
      [] Kind(x) = "Bool" -> <<"Bool", x[2]>>
      [] Kind(x) = "Integer" -> <<"Int", x[2]>>
      [] Kind(x) = "Float" -> <<"F64", x[2]>>
      [] Kind(x) = "Bytes" -> <<"Seq", [i \in 1..Len(x[2]) |-> <<"u8", x[2][i]>>]>>
      [] Kind(x) = "Text" -> <<"Str", x[2]>>
      [] Kind(x) = "Array" -> <<"Seq", x[2]>>
      [] Kind(x) = "Map" -> <<"Map", x[2]>>
      [] Kind(x) = "Tag" -> <<"Panic">>
      [] Kind(x) = "unit" -> <<"Null">>
      [] Kind(x) = "bool" -> <<"Bool", x[2]>>
      [] Kind(x) = "String" -> <<"Str", x[2]>>
      [] Kind(x) = "i64" -> <<"Int", x[2]>>
      [] Kind(x) = "f64" -> <<"F64", x[2]>>
      [] Kind(x) = "Box" -> view(x[2])
      [] Kind(x) = "None" -> <<"Null">>
      [] Kind(x) = "Some" -> view(x[2])
      [] Kind(x) = "Tuple" -> <<"Seq", <<x[2], x[3]>>>>
      [] Kind(x) = "Vec" ->
            IF x[2] # <<>> /\ \A i \in 1..Len(x[2]) : Kind(x[2][i]) = "u8"
            THEN <<"Bytes", [i \in 1..Len(x[2]) |-> x[2][i][2]]>>
            ELSE <<"Seq", x[2]>>
      [] Kind(x) = "BTreeMap" -> <<"Map", x[2]>>

\* `match view { ... }` of to_writer: the bytes written for one view and the
\* layer pushed for a container
write_view(vw) ==
    CASE vw[1] = "Null" -> [st |-> "ok", out |-> <<246>>, push |-> <<>>]
      [] vw[1] = "Bool" ->
            [st |-> "ok", out |-> <<244 + (IF vw[2] THEN 1 ELSE 0)>>, push |-> <<>>]
      [] vw[1] = "Str" ->
            [st |-> "ok", out |-> write_u64(3, NatMag(Len(vw[2]))) \o vw[2], push |-> <<>>]
      [] vw[1] = "Bytes" ->
            [st |-> "ok", out |-> write_u64(2, NatMag(Len(vw[2]))) \o vw[2], push |-> <<>>]
      [] vw[1] = "Int" ->
            The({[st |-> r.st, out |-> r.out, push |-> <<>>] : r \in {write_int(vw[2])}})
      [] vw[1] = "F64" -> [st |-> "ok", out |-> write_f64(vw[2]), push |-> <<>>]
      [] vw[1] = "Seq" ->
            [st |-> "ok", out |-> write_u64(4, NatMag(Len(vw[2]))),
             push |-> << <<"Seq", vw[2]>> >>]
      [] vw[1] = "Map" ->
            [st |-> "ok", out |-> write_u64(5, NatMag(Len(vw[2]))),
             push |-> << <<"Map", vw[2]>> >>]

RECURSIVE to_vec(_), to_writer_loop(_, _)

\* a loop that pulls the value of a map entry before its key
to_writer_loop_value_first(stk, out) ==
    IF stk = <<>> THEN [st |-> "ok", out |-> out]
    ELSE
    LET last == stk[Len(stk)]
        rest == SubSeq(stk, 1, Len(stk) - 1)
    IN  CASE last[1] = "Single" ->
                IF view(last[2])[1] = "Panic" THEN [st |-> "panic", out |-> out]
                ELSE The({IF w.st # "ok" THEN [st |-> w.st, out |-> out]
                          ELSE to_writer_loop(rest \o w.push, out \o w.out) :
                            w \in {write_view(view(last[2]))}})
          [] last[1] = "Seq" ->
                IF last[2] # <<>>
                THEN to_writer_loop(
                        rest \o << <<"Seq", Tail(last[2])>>, <<"Single", Head(last[2])>> >>,
                        out)
                ELSE to_writer_loop(rest, out)
          [] last[1] = "Map" ->
                IF last[2] # <<>>
                THEN to_writer_loop(
                        rest \o << <<"Map", Tail(last[2])>>,
                                   <<"Single", Head(last[2])[1]>>,
                                   <<"Single", Head(last[2])[2]>> >>,
                        out)
                ELSE to_writer_loop(rest, out)

\* The `while let Some(last) = stack.last_mut()` loop of to_writer, from the
\* stack stk with out already written.  A Map layer is the ObjectIter of
\* stream_cbor_object, whose next() runs to_vec(k).unwrap() on the key.
to_writer_loop(stk, out) ==
    IF stk = <<>> THEN [st |-> "ok", out |-> out]
    ELSE
    LET last == stk[Len(stk)]
        rest == SubSeq(stk, 1, Len(stk) - 1)
    IN  CASE last[1] = "Single" ->
                IF view(last[2])[1] = "Panic" THEN [st |-> "panic", out |-> out]
                ELSE The({IF w.st # "ok" THEN [st |-> w.st, out |-> out]
                          ELSE to_writer_loop(rest \o w.push, out \o w.out) :
                            w \in {write_view(view(last[2]))}})
          [] last[1] = "Seq" ->
                IF last[2] # <<>>
                THEN to_writer_loop(
                        rest \o << <<"Seq", Tail(last[2])>>, <<"Single", Head(last[2])>> >>,
                        out)
                ELSE to_writer_loop(rest, out)
          [] last[1] = "Map" ->
                IF last[2] # <<>>
                THEN IF to_vec(Head(last[2])[1]).st # "ok"
                     THEN [st |-> "panic", out |-> out]
                     ELSE to_writer_loop(
                            rest \o << <<"Map", Tail(last[2])>>,
                                       <<"Single", Head(last[2])[2]>>,
                                       <<"Single", Head(last[2])[1]>> >>,
                            out)
                ELSE to_writer_loop(rest, out)

to_writer(value) == to_writer_loop(<< <<"Single", value>> >>, <<>>)

\* cbor::to_vec: Ok(bytes), Err(Error), or a panic out of a view or a key
to_vec(value) ==
    The({IF r.st = "ok" THEN r ELSE [st |-> r.st, out |-> <<>>] : r \in {to_writer(value)}})

(***************************************************************************)
(* The canonical ordering of Value                                         *)
(***************************************************************************)

\* a cmp that compares byte and text strings by content before length
cmp_content_first(a, b) ==
    IF major_type(a) # major_type(b) THEN NatCmp(major_type(a), major_type(b))
    ELSE IF Kind(a) = "Integer" /\ Kind(b) = "Integer" THEN MagCmp(Abs(a[2]), Abs(b[2]))
    ELSE IF Kind(a) \in {"Bytes", "Text"} /\ Kind(b) = Kind(a) THEN LexCmp(a[2], b[2])
    ELSE IF Kind(a) \in {"Array", "Map"} /\ Kind(b) = Kind(a) /\ Len(a[2]) # Len(b[2])
        THEN NatCmp(Len(a[2]), Len(b[2]))
    ELSE The({IF x.st # "ok" \/ y.st # "ok" THEN "Panic" ELSE LexCmp(x.out, y.out) :
                x \in {to_vec(a)}, y \in {to_vec(b)}})

\* <Value as Ord>::cmp; "Panic" where an expect() fails or to_vec panics
cmp(a, b) ==
    IF major_type(a) # major_type(b) THEN NatCmp(major_type(a), major_type(b))
    ELSE IF Kind(a) = "Integer" /\ Kind(b) = "Integer" THEN MagCmp(Abs(a[2]), Abs(b[2]))
    ELSE IF Kind(a) \in {"Bytes", "Text", "Array", "Map"} /\ Kind(b) = Kind(a)
            /\ Len(a[2]) # Len(b[2])
        THEN NatCmp(Len(a[2]), Len(b[2]))
    ELSE IF Kind(a) \in {"Bytes", "Text"} /\ Kind(b) = Kind(a) THEN LexCmp(a[2], b[2])
    ELSE The({IF x.st # "ok" \/ y.st # "ok" THEN "Panic" ELSE LexCmp(x.out, y.out) :
                x \in {to_vec(a)}, y \in {to_vec(b)}})

\* an insert that keeps the entries in the order of insertion
insert_unsorted(m, k, v) ==
    [st |-> "ok", m |-> Append(m, <<k, v>>)]

\* BTreeMap::<Value, Value>::insert on the entries m (in key order): the keys
\* are searched in order until one is not less than k
RECURSIVE insert(_, _, _)
insert(m, k, v) ==
    IF m = <<>> THEN [st |-> "ok", m |-> << <<k, v>> >>]
    ELSE The({CASE c = "Panic" -> [st |-> "panic", m |-> m]
                [] c = "Less" -> [st |-> "ok", m |-> << <<k, v>> >> \o m]
                [] c = "Equal" -> [st |-> "ok", m |-> << <<Head(m)[1], v>> >> \o Tail(m)]
                [] c = "Greater" ->
                     The({[st |-> r.st, m |-> <<Head(m)>> \o r.m] :
                            r \in {insert(Tail(m), k, v)}}) :
                c \in {cmp(k, Head(m)[1])}})


(***************************************************************************)
(* cbor::de::helpers                                                       *)
(***************************************************************************)

MAX_DEPTH == 256

POS_INT == 0
NEG_INT == 1
BYTE_SLICE == 2
STR == 3
SEQ == 4
MAP == 5
CUSTOM_TAG == 6
FLOAT_BOOL_OR_UNIT == 7

U8 == 24
U16 == 25
U32 == 26
U64 == 27
UNKNOWN_LEN == 31
FALSE_TAG == 20
TRUE_TAG == 21
UNIT_CANONICAL == 22
UNIT_ALTERNATIVE == 23

major_and_tag(byte) == <<byte \div 32, byte % 32>>

BREAK_CODE == <<FLOAT_BOOL_OR_UNIT, UNKNOWN_LEN>>

\* core::str::from_utf8(bs).is_ok(), from the byte at index i on
RECURSIVE from_utf8(_, _)
from_utf8(bs, i) ==
    IF i > Len(bs) THEN TRUE
    ELSE
    LET b == bs[i]
        cont(k) == i + k <= Len(bs) /\ bs[i + k] \in 128..191
        second(lo, hi) == i + 1 <= Len(bs) /\ bs[i + 1] \in lo..hi
    IN  IF b < 128 THEN from_utf8(bs, i + 1)
        ELSE IF b \in 194..223 THEN cont(1) /\ from_utf8(bs, i + 2)
        ELSE IF b = 224 THEN second(160, 191) /\ cont(2) /\ from_utf8(bs, i + 3)
        ELSE IF b \in (225..236) \cup (238..239)
            THEN cont(1) /\ cont(2) /\ from_utf8(bs, i + 3)
        ELSE IF b = 237 THEN second(128, 159) /\ cont(2) /\ from_utf8(bs, i + 3)
        ELSE IF b = 240
            THEN second(144, 191) /\ cont(2) /\ cont(3) /\ from_utf8(bs, i + 4)
        ELSE IF b \in 241..243
            THEN cont(1) /\ cont(2) /\ cont(3) /\ from_utf8(bs, i + 4)
        ELSE IF b = 244
            THEN second(128, 143) /\ cont(2) /\ cont(3) /\ from_utf8(bs, i + 4)
        ELSE FALSE

\* a parse_u64 that takes an argument in its shortest form only
parse_u64_canonical(tag, bs, pos) ==
    LET w == CASE tag = U8 -> 1 [] tag = U16 -> 2 [] tag = U32 -> 4 [] tag = U64 -> 8
               [] OTHER -> 0
        v == StripZeros(SubSeq(bs, pos, pos + w - 1))
    IN  IF tag <= SMALL_U8_MAX THEN [ok |-> TRUE, v |-> NatMag(tag), pos |-> pos]
        ELSE IF w = 0 THEN [ok |-> FALSE, v |-> <<>>, pos |-> pos]
        ELSE IF pos + w - 1 > Len(bs) THEN [ok |-> FALSE, v |-> <<>>, pos |-> Len(bs) + 1]
        ELSE IF write_u64(0, v) # <<tag>> \o SubSeq(bs, pos, pos + w - 1)
            THEN [ok |-> FALSE, v |-> <<>>, pos |-> pos + w]
        ELSE [ok |-> TRUE, v |-> v, pos |-> pos + w]

\* parse_u64(tag, bytes) with the iterator at index pos of bs: the argument
\* as a magnitude and the iterator afterwards; multi_bytes! drains a short
\* iterator before it fails
parse_u64(tag, bs, pos) ==
    LET w == CASE tag = U8 -> 1 [] tag = U16 -> 2 [] tag = U32 -> 4 [] tag = U64 -> 8
               [] OTHER -> 0
    IN  IF tag <= SMALL_U8_MAX THEN [ok |-> TRUE, v |-> NatMag(tag), pos |-> pos]
        ELSE IF w = 0 THEN [ok |-> FALSE, v |-> <<>>, pos |-> pos]
        ELSE IF pos + w - 1 > Len(bs) THEN [ok |-> FALSE, v |-> <<>>, pos |-> Len(bs) + 1]
        ELSE [ok |-> TRUE, v |-> StripZeros(SubSeq(bs, pos, pos + w - 1)), pos |-> pos + w]

parse_known_len_byte_seq(tag, bs, pos) ==
    The({IF ~n.ok THEN [ok |-> FALSE, slice |-> <<>>, pos |-> n.pos]
         ELSE IF ~MagLeqNat(n.v, Len(bs) - n.pos + 1)
             THEN [ok |-> FALSE, slice |-> <<>>, pos |-> n.pos]
         ELSE The({[ok |-> TRUE, slice |-> SubSeq(bs, n.pos, n.pos + len - 1),
                    pos |-> n.pos + len] : len \in {MagToNat(n.v)}}) :
            n \in {parse_u64(tag, bs, pos)}})

\* The `loop` of the (BYTE_SLICE, UNKNOWN_LEN) arm and, with text set, of the
\* (STR, UNKNOWN_LEN) arm: a chunk is accepted when its major type is
\* BYTE_SLICE, in both arms
RECURSIVE chunks(_, _, _, _)
chunks(text, bs, pos, acc) ==
    IF pos > Len(bs) THEN [ok |-> FALSE, acc |-> acc, pos |-> pos]
    ELSE IF major_and_tag(bs[pos]) = BREAK_CODE
        THEN [ok |-> TRUE, acc |-> acc, pos |-> pos + 1]
    ELSE IF major_and_tag(bs[pos])[1] = BYTE_SLICE
        THEN The({IF ~c.ok THEN [ok |-> FALSE, acc |-> acc, pos |-> c.pos]
                  ELSE IF text /\ ~from_utf8(c.slice, 1)
                      THEN [ok |-> FALSE, acc |-> acc, pos |-> c.pos]
                  ELSE chunks(text, bs, c.pos, acc \o c.slice) :
                    c \in {parse_known_len_byte_seq(major_and_tag(bs[pos])[2], bs, pos + 1)}})
    ELSE [ok |-> FALSE, acc |-> acc, pos |-> pos + 1]

\* The arms of from_slice_impl's match that hold no nested item, for the head
\* byte at index pos: the iterator afterwards and the Visitor method called
\* with its argument
scalar_item(bs, pos) ==
    LET m == major_and_tag(bs[pos])[1]
        tag == major_and_tag(bs[pos])[2]
        E(p) == [ok |-> FALSE, pos |-> p, ev |-> <<"none">>]
    IN  CASE m \in {POS_INT, NEG_INT} ->
                The({IF ~n.ok THEN E(n.pos)
                     ELSE [ok |-> TRUE, pos |-> n.pos,
                           ev |-> <<"int", IF m = NEG_INT THEN IntOf(TRUE, MagInc(n.v))
                                           ELSE IntOf(FALSE, n.v)>>] :
                        n \in {parse_u64(tag, bs, pos + 1)}})
          [] m \in {BYTE_SLICE, STR} /\ tag = UNKNOWN_LEN ->
                The({IF ~c.ok THEN E(c.pos)
                     ELSE [ok |-> TRUE, pos |-> c.pos,
                           ev |-> <<IF m = STR THEN "string" ELSE "bytes", c.acc>>] :
                        c \in {chunks(m = STR, bs, pos + 1, <<>>)}})
          [] m \in {BYTE_SLICE, STR} /\ tag # UNKNOWN_LEN ->
                The({IF ~k.ok THEN E(k.pos)
                     ELSE IF m = STR /\ ~from_utf8(k.slice, 1) THEN E(k.pos)
                     ELSE [ok |-> TRUE, pos |-> k.pos,
                           ev |-> <<IF m = STR THEN "string" ELSE "bytes", k.slice>>] :
                        k \in {parse_known_len_byte_seq(tag, bs, pos + 1)}})
          [] m = CUSTOM_TAG -> E(pos + 1)
          [] m = FLOAT_BOOL_OR_UNIT /\ tag \in {FALSE_TAG, TRUE_TAG} ->
                [ok |-> TRUE, pos |-> pos + 1, ev |-> <<"boolean", tag = TRUE_TAG>>]
          [] m = FLOAT_BOOL_OR_UNIT /\ tag \in {UNIT_CANONICAL, UNIT_ALTERNATIVE} ->
                [ok |-> TRUE, pos |-> pos + 1, ev |-> <<"null">>]
          [] m = FLOAT_BOOL_OR_UNIT /\ tag \in {U16, U32, U64} ->
                The({IF pos + fw > Len(bs) THEN E(Len(bs) + 1)
                     ELSE [ok |-> TRUE, pos |-> pos + fw + 1,
                           ev |-> <<"float",
                                    The({CASE tag = U16 -> BytesOfBits(Widen(BitsOf(fb), 5, 10))
                                           [] tag = U32 -> BytesOfBits(Widen(BitsOf(fb), 8, 23))
                                           [] OTHER -> fb :
                                         fb \in {SubSeq(bs, pos + 1, pos + fw)}})>>] :
                        fw \in {CASE tag = U16 -> 2 [] tag = U32 -> 4 [] OTHER -> 8}})
          [] OTHER -> E(pos + 1)

(***************************************************************************)
(* Deserialize: the visitors, Seq builders and Map builders of the target  *)
(* types.  A type is a tuple: <<"Value">>, <<"unit">>, <<"bool">>,          *)
(* <<"String">>, <<"u8">>, <<"Option", T>>, <<"Box", T>>, <<"Vec", T>>,     *)
(* <<"Tuple", A, B>>, <<"FixedArray", T, N>> for [T; N], <<"Tag">> for the *)
(* derived enum Tag { A, B } of tests/test_derive.rs, <<"Enum">> for the   *)
(* derived                                                                 *)
(*     #[derive(Deserialize)] enum Enum { a(bool), b(u8) }                 *)
(* (<<"Enum", TRUE>> is its visitor over a place that holds a value        *)
(* already), <<"Struct", name, fields>> for a derived struct with the      *)
(* named fields <<key, type>>, and <<"Ignore">> for Visitor::ignore().     *)
(* <<"Tagged", variants>> is a derived enum with #[serde(tag = "kind")]    *)
(* and the variants <<name, type>>, <<"StrVisitor", variants>> the visitor *)
(* of its tag's value, and <<"TupleStruct", name, types>> a derived tuple  *)
(* struct of two fields or more.                                           *)
(* A visitor call gives [st, w]: st is "ok", "err" or "panic" and w is     *)
(* what the call left in the place behind the visitor, None when it wrote  *)
(* nothing.  An Option<T> value is None or Some(v).                        *)
(***************************************************************************)

OkW(v) == [st |-> "ok", w |-> Some(v)]
OkNothing == [st |-> "ok", w |-> None]
Err == [st |-> "err", w |-> None]
Panic == [st |-> "panic", w |-> None]

VARIANT_a == <<97>>
VARIANT_b == <<98>>

\* the key #[serde(tag = "kind")] names
TAG_NAME == <<107, 105, 110, 100>>

\* the names of Tag::A and of Tag::B (#[serde(rename = "renamedB")])
Tag_A == <<65>>
Tag_B == <<114, 101, 110, 97, 109, 101, 100, 66>>

\* a Deserialize::default that is Some for every type
default_some(T) == Some(None)

\* Deserialize::default: Some(None) for Option<T>, None for any other type
default(T) == IF T[1] = "Option" THEN Some(None) ELSE None

\* the index of the field of the derived struct that the key k names, 0 if
\* it names none: the `match __k` of __State::key
field_of(fields, k) ==
    IF \E i \in 1..Len(fields) : fields[i][1] = k
    THEN CHOOSE i \in 1..Len(fields) : fields[i][1] = k
    ELSE 0

\* Deserialize::begin(place) for a place of type T: the visitor it gives
begin(T, place) == IF T = <<"Enum">> /\ place # None THEN <<"Enum", TRUE>> ELSE T

RECURSIVE visit(_, _), seq(_), map(_), element(_), element_write(_, _), seq_finish(_),
          val_with_key(_), key_done(_, _), value_write(_, _), map_finish(_),
          bytes_default(_, _)

\* __State::element of a derived tuple struct: the first field that is None
\* is the next slot
unnamed_element(b) ==
    LET E == {i \in 1..Len(b[4]) : b[4][i] = None}
    IN  IF E = {} THEN [st |-> "err", ty |-> <<"unit">>, b |-> b]
        ELSE [st |-> "ok", ty |-> begin(b[3][SetMin(E)], None),
              b |-> <<b[1], b[2], b[3], b[4], SetMin(E)>>]

\* __State::finish of a derived tuple struct
unnamed_finish(b) ==
    IF \A i \in 1..Len(b[4]) : b[4][i] # None
    THEN OkW(<<"TupleStruct", b[2], [i \in 1..Len(b[4]) |-> b[4][i][2]]>>)
    ELSE Err

\* Seq::element of the builder b: the builder afterwards and the type whose
\* place it hands out
element(b) ==
    CASE b[1] = "ArrayBuilder" ->
            [st |-> "ok", ty |-> <<"Value">>,
             b |-> <<"ArrayBuilder",
                     IF b[3] = None THEN b[2] ELSE Append(b[2], b[3][2]), None>>]
      [] b[1] = "VecBuilder" ->
            [st |-> "ok", ty |-> b[2],
             b |-> <<"VecBuilder", b[2],
                     IF b[4] = None THEN b[3] ELSE Append(b[3], b[4][2]), None>>]
      [] b[1] = "TupleBuilder" ->
            IF b[4] = None THEN [st |-> "ok", ty |-> b[2], b |-> <<b[1], b[2], b[3], b[4], b[5], 0>>]
            ELSE IF b[5] = None
                THEN [st |-> "ok", ty |-> b[3], b |-> <<b[1], b[2], b[3], b[4], b[5], 1>>]
            ELSE [st |-> "err", ty |-> <<"unit">>, b |-> b]
      [] b[1] = "FixedArrayBuilder" ->
            [st |-> "ok", ty |-> b[2],
             b |-> <<b[1], b[2], b[3],
                     IF b[5] = None THEN b[4] ELSE Append(b[4], b[5][2]), None>>]
      [] b[1] = "UnnamedState" -> unnamed_element(b)
      [] b[1] = "Ignore" -> [st |-> "ok", ty |-> <<"Ignore">>, b |-> b]
      [] b[1] \in {"BoxSeq", "OptionSeq"} ->
            [st |-> element(b[2]).st, ty |-> element(b[2]).ty, b |-> <<b[1], element(b[2]).b>>]

\* The element visitor left w in the place element() handed out
element_write(b, w) ==
    CASE b[1] = "ArrayBuilder" -> <<b[1], b[2], w>>
      [] b[1] = "VecBuilder" -> <<b[1], b[2], b[3], w>>
      [] b[1] = "TupleBuilder" ->
            IF b[6] = 0 THEN <<b[1], b[2], b[3], w, b[5], b[6]>>
            ELSE <<b[1], b[2], b[3], b[4], w, b[6]>>
      [] b[1] = "FixedArrayBuilder" -> <<b[1], b[2], b[3], b[4], w>>
      [] b[1] = "UnnamedState" ->
            IF w = None THEN b ELSE <<b[1], b[2], b[3], [b[4] EXCEPT ![b[5]] = w], b[5]>>
      [] b[1] = "Ignore" -> b
      [] b[1] \in {"BoxSeq", "OptionSeq"} -> <<b[1], element_write(b[2], w)>>

\* Seq::finish
seq_finish(b) ==
    CASE b[1] = "ArrayBuilder" ->
            OkW(Array(IF b[3] = None THEN b[2] ELSE Append(b[2], b[3][2])))
      [] b[1] = "VecBuilder" ->
            OkW(<<"Vec", IF b[4] = None THEN b[3] ELSE Append(b[3], b[4][2])>>)
      [] b[1] = "TupleBuilder" ->
            IF b[4] # None /\ b[5] # None THEN OkW(<<"Tuple", b[4][2], b[5][2]>>) ELSE Err
      [] b[1] = "FixedArrayBuilder" ->
            \* array_init::from_iter takes the first N items of the iterator
            \* and gives None when there are fewer
            The({IF Len(vec) >= b[3] THEN OkW(<<"FixedArray", SubSeq(vec, 1, b[3])>>)
                 ELSE Err :
                    vec \in {IF b[5] = None THEN b[4] ELSE Append(b[4], b[5][2])}})
      [] b[1] = "UnnamedState" -> unnamed_finish(b)
      [] b[1] = "Ignore" -> OkNothing
      [] b[1] = "BoxSeq" ->
            The({IF r.st # "ok" THEN r
                 ELSE IF r.w = None THEN Panic
                 ELSE OkW(<<"Box", r.w[2]>>) : r \in {seq_finish(b[2])}})
      [] b[1] = "OptionSeq" ->
            The({IF r.st # "ok" THEN r ELSE OkW(r.w) : r \in {seq_finish(b[2])}})

\* Visitor::seq of Place<T>
seq(T) ==
    CASE T[1] = "Value" -> [st |-> "ok", b |-> <<"ArrayBuilder", <<>>, None>>]
      [] T[1] = "Vec" -> [st |-> "ok", b |-> <<"VecBuilder", T[2], <<>>, None>>]
      [] T[1] = "Tuple" -> [st |-> "ok", b |-> <<"TupleBuilder", T[2], T[3], None, None, 0>>]
      [] T[1] = "FixedArray" ->
            [st |-> "ok", b |-> <<"FixedArrayBuilder", T[2], T[3], <<>>, None>>]
      [] T[1] = "TupleStruct" ->
            [st |-> "ok",
             b |-> <<"UnnamedState", T[2], T[3], [i \in 1..Len(T[3]) |-> default(T[3][i])], 0>>]
      [] T[1] = "Ignore" -> [st |-> "ok", b |-> <<"Ignore">>]
      [] T[1] = "Box" ->
            IF seq(T[2]).st # "ok" THEN seq(T[2])
            ELSE [st |-> "ok", b |-> <<"BoxSeq", seq(T[2]).b>>]
      [] T[1] = "Option" ->
            IF seq(T[2]).st # "ok" THEN seq(T[2])
            ELSE [st |-> "ok", b |-> <<"OptionSeq", seq(T[2]).b>>]
      [] OTHER -> [st |-> "err", b |-> <<"none">>]

\* ObjectBuilder::shift
shift(b) ==
    IF b[3] # None /\ b[4] # None
    THEN The({[st |-> r.st, b |-> <<b[1], r.m, None, None>>] :
                r \in {insert(b[2], b[3][2], b[4][2])}})
    ELSE [st |-> "ok", b |-> <<b[1], b[2], None, None>>]

\* Map::val_with_key up to the call of de_key: the builder and the type of
\* the place the key is decoded into
val_with_key(b) ==
    CASE b[1] = "ObjectBuilder" ->
            The({[st |-> r.st, ty |-> <<"Value">>, b |-> r.b] : r \in {shift(b)}})
      [] b[1] \in {"EnumMap", "State", "TaggedMap"} ->
            [st |-> "ok", ty |-> <<"String">>, b |-> b]
      [] b[1] = "Ignore" -> [st |-> "ok", ty |-> <<"Ignore">>, b |-> b]
      [] b[1] \in {"BoxMap", "OptionMap"} ->
            [st |-> val_with_key(b[2]).st, ty |-> val_with_key(b[2]).ty,
             b |-> <<b[1], val_with_key(b[2]).b>>]

\* a __Map::key that lets the keys before the tag pass
tagged_key_any_order(b, k) ==
    IF b[3] # None THEN
        The({IF vk.st # "ok" THEN [st |-> vk.st, ty |-> <<"unit">>, b |-> b]
             ELSE The({IF kv.st # "ok" THEN [st |-> kv.st, ty |-> <<"unit">>, b |-> b]
                       ELSE The({[st |-> kd.st, ty |-> kd.ty,
                                  b |-> <<b[1], b[2], Some(kd.b), b[4], FALSE>>] :
                                    kd \in {key_done(vk.b, kv.w)}}) :
                            kv \in {visit(vk.ty, <<"string", k>>)}}) :
                vk \in {val_with_key(b[3][2])}})
    ELSE IF k = TAG_NAME
        THEN [st |-> "ok", ty |-> <<"StrVisitor", b[2]>>,
              b |-> <<b[1], b[2], b[3], b[4], TRUE>>]
    ELSE [st |-> "ok", ty |-> <<"Ignore">>, b |-> <<b[1], b[2], b[3], b[4], FALSE>>]

\* __Map::key of an internally tagged enum.  b is <<"TaggedMap", variants,
\* map_visitor, current variant (0: __serde_None), whether the visitor
\* handed out last is the one of the tag's value>>.  With a map_visitor the
\* key goes to its val_with_key as a string; without one the key has to be
\* the tag
tagged_key(b, k) ==
    IF b[3] # None THEN
        The({IF vk.st # "ok" THEN [st |-> vk.st, ty |-> <<"unit">>, b |-> b]
             ELSE The({IF kv.st # "ok" THEN [st |-> kv.st, ty |-> <<"unit">>, b |-> b]
                       ELSE The({[st |-> kd.st, ty |-> kd.ty,
                                  b |-> <<b[1], b[2], Some(kd.b), b[4], FALSE>>] :
                                    kd \in {key_done(vk.b, kv.w)}}) :
                            kv \in {visit(vk.ty, <<"string", k>>)}}) :
                vk \in {val_with_key(b[3][2])}})
    ELSE IF k = TAG_NAME
        THEN [st |-> "ok", ty |-> <<"StrVisitor", b[2]>>,
              b |-> <<b[1], b[2], b[3], b[4], TRUE>>]
    ELSE [st |-> "err", ty |-> <<"unit">>, b |-> b]

\* the closure of the StrVisitor key() hands out for the tag's value: the
\* variant s names and the map() of its type (map_visitor is None whenever
\* this visitor is handed out, and it is fed once)
tag_value(variants, s) ==
    The({IF i = 0 THEN Err
         ELSE IF map(variants[i][2]).st # "ok" THEN Err
         ELSE OkW(<<"variant", i>>) :
            i \in {field_of(variants, s)}})

\* __Map::finish of an internally tagged enum
tagged_finish(b) ==
    IF b[3] # None
    THEN The({IF r.st # "ok" THEN r
              ELSE IF b[4] = 0 \/ r.w = None THEN Err
              ELSE OkW(<<"Tagged", b[2][b[4]][1], r.w[2]>>) :
                r \in {map_finish(b[3][2])}})
    ELSE Err

\* Map::val_with_key after de_key returned Ok having left w in the key's
\* place: the type of the place handed out for the value
key_done(b, w) ==
    CASE b[1] = "ObjectBuilder" ->
            [st |-> "ok", ty |-> <<"Value">>, b |-> <<b[1], b[2], w, b[4]>>]
      [] b[1] = "EnumMap" ->
            IF w = None THEN [st |-> "err", ty |-> <<"unit">>, b |-> b]
            ELSE IF w[2][2] = VARIANT_a
                THEN [st |-> "ok", ty |-> <<"bool">>, b |-> <<b[1], b[2], b[3], 0, b[5]>>]
            ELSE IF w[2][2] = VARIANT_b
                THEN [st |-> "ok", ty |-> <<"u8">>, b |-> <<b[1], b[2], b[3], 1, b[5]>>]
            ELSE [st |-> "err", ty |-> <<"unit">>, b |-> b]
      [] b[1] = "State" ->
            IF w = None THEN [st |-> "err", ty |-> <<"unit">>, b |-> b]
            ELSE The({IF i = 0 THEN [st |-> "ok", ty |-> <<"Ignore">>,
                                     b |-> <<b[1], b[2], b[3], b[4], 0>>]
                      ELSE [st |-> "ok", ty |-> begin(b[3][i][2], b[4][i]),
                            b |-> <<b[1], b[2], b[3], b[4], i>>] :
                        i \in {field_of(b[3], w[2][2])}})
      [] b[1] = "TaggedMap" ->
            IF w = None THEN [st |-> "err", ty |-> <<"unit">>, b |-> b]
            ELSE tagged_key(b, w[2][2])
      [] b[1] = "Ignore" -> [st |-> "ok", ty |-> <<"Ignore">>, b |-> b]
      [] b[1] \in {"BoxMap", "OptionMap"} ->
            [st |-> key_done(b[2], w).st, ty |-> key_done(b[2], w).ty,
             b |-> <<b[1], key_done(b[2], w).b>>]

\* The value's visitor left w in the place val_with_key handed out
value_write(b, w) ==
    CASE b[1] = "ObjectBuilder" -> <<b[1], b[2], b[3], w>>
      [] b[1] = "EnumMap" ->
            IF b[4] = 0 THEN <<b[1], w, b[3], b[4], b[5]>> ELSE <<b[1], b[2], w, b[4], b[5]>>
      [] b[1] = "State" ->
            IF b[5] = 0 \/ w = None THEN b
            ELSE <<b[1], b[2], b[3], [b[4] EXCEPT ![b[5]] = w], b[5]>>
      [] b[1] = "TaggedMap" ->
            \* the closure of the tag's visitor sets map_visitor and the
            \* current variant; any other value is written by the visitor
            \* the variant's own builder handed out
            IF b[5] THEN (IF w = None THEN b
                          ELSE <<b[1], b[2], Some(map(b[2][w[2][2]][2]).b), w[2][2], FALSE>>)
            ELSE IF b[3] = None THEN b
            ELSE <<b[1], b[2], Some(value_write(b[3][2], w)), b[4], b[5]>>
      [] b[1] = "Ignore" -> b
      [] b[1] \in {"BoxMap", "OptionMap"} -> <<b[1], value_write(b[2], w)>>

\* Map::finish
map_finish(b) ==
    CASE b[1] = "ObjectBuilder" ->
            The({IF r.st # "ok" THEN Panic ELSE OkW(Map(r.b[2])) : r \in {shift(b)}})
      [] b[1] = "EnumMap" ->
            \* b[5]: the place held a value when the map began, so the
            \* first __serde_out.replace finds prev.is_some()
            IF b[2] # None /\ (b[3] # None \/ b[5]) THEN Err
            ELSE IF b[2] # None THEN OkW(<<"Enum", VARIANT_a, b[2][2]>>)
            ELSE IF b[3] # None /\ b[5] THEN Err
            ELSE IF b[3] # None THEN OkW(<<"Enum", VARIANT_b, b[3][2]>>)
            ELSE OkNothing
      [] b[1] = "State" ->
            IF \A i \in 1..Len(b[4]) : b[4][i] # None
            THEN OkW(<<"Struct", b[2], [i \in 1..Len(b[4]) |-> b[4][i][2]]>>)
            ELSE Err
      [] b[1] = "TaggedMap" -> tagged_finish(b)
      [] b[1] = "Ignore" -> OkNothing
      [] b[1] = "BoxMap" ->
            The({IF r.st # "ok" THEN r
                 ELSE IF r.w = None THEN Panic
                 ELSE OkW(<<"Box", r.w[2]>>) : r \in {map_finish(b[2])}})
      [] b[1] = "OptionMap" ->
            The({IF r.st # "ok" THEN r ELSE OkW(r.w) : r \in {map_finish(b[2])}})

\* Visitor::map of Place<T>
map(T) ==
    CASE T[1] = "Value" -> [st |-> "ok", b |-> <<"ObjectBuilder", <<>>, None, None>>]
      [] T[1] = "Enum" -> [st |-> "ok", b |-> <<"EnumMap", None, None, 0, Len(T) = 2>>]
      [] T[1] = "Struct" ->
            [st |-> "ok",
             b |-> <<"State", T[2], T[3], [i \in 1..Len(T[3]) |-> default(T[3][i][2])], 0>>]
      [] T[1] = "Tagged" -> [st |-> "ok", b |-> <<"TaggedMap", T[2], None, 0, FALSE>>]
      [] T[1] = "Ignore" -> [st |-> "ok", b |-> <<"Ignore">>]
      [] T[1] = "Box" ->
            IF map(T[2]).st # "ok" THEN map(T[2])
            ELSE [st |-> "ok", b |-> <<"BoxMap", map(T[2]).b>>]
      [] T[1] = "Option" ->
            IF map(T[2]).st # "ok" THEN map(T[2])
            ELSE [st |-> "ok", b |-> <<"OptionMap", map(T[2]).b>>]
      [] OTHER -> [st |-> "err", b |-> <<"none">>]

\* a Visitor::bytes that feeds no byte to the sequence
bytes_default_unfed(b, xs) == seq_finish(b)

\* The `for &x in xs` loop and the finish of the default Visitor::bytes
bytes_default(b, xs) ==
    IF xs = <<>> THEN seq_finish(b)
    ELSE The({IF el.st # "ok" THEN Err
              ELSE The({IF r.st # "ok" THEN [st |-> r.st, w |-> None]
                        ELSE bytes_default(element_write(el.b, r.w), Tail(xs)) :
                            r \in {visit(el.ty, <<"int", IntOf(FALSE, NatMag(Head(xs)))>>)}}) :
                el \in {element(b)}})

\* The Visitor method ev[1] of Place<T>, called with the argument ev[2]
visit(T, ev) ==
    LET k == T[1]
        e == ev[1]
        own ==
            \/ k = "Value" /\ e \in {"null", "boolean", "string", "int", "float"}
            \/ k = "unit" /\ e = "null"
            \/ k = "bool" /\ e = "boolean"
            \/ k = "String" /\ e = "string"
            \/ k = "u8" /\ e = "int"
            \/ k \in {"Box", "Option"} /\ e \in {"null", "boolean", "string", "int", "float"}
            \/ k \in {"Vec", "FixedArray"} /\ e = "bytes"
            \/ k = "Tag" /\ e = "string"
            \/ k = "StrVisitor" /\ e = "string"
            \/ k = "Ignore" /\ e \in {"null", "boolean", "string", "int", "float"}
    IN  IF ~own THEN
            \* the defaults of trait Visitor
            CASE e = "null" ->
                    The({IF m.st # "ok" THEN Err ELSE map_finish(m.b) : m \in {map(T)}})
              [] e = "bytes" ->
                    The({IF q.st # "ok" THEN Err ELSE bytes_default(q.b, ev[2]) :
                            q \in {seq(T)}})
              [] OTHER -> Err
        ELSE
            CASE k = "Value" ->
                    (CASE e = "null" -> OkW(Null)
                       [] e = "boolean" -> OkW(Bool(ev[2]))
                       [] e = "string" -> OkW(Text(ev[2]))
                       [] e = "int" ->
                            IF (IsNeg(ev[2]) /\ MagCmp(Abs(ev[2]), TWO_POW_64) # "Greater")
                                \/ (~IsNeg(ev[2]) /\ MagCmp(Abs(ev[2]), U64_MAX) # "Greater")
                            THEN OkW(Integer(ev[2])) ELSE Err
                       [] e = "float" -> OkW(Float(ev[2])))
              [] k = "unit" -> OkW(<<"unit">>)
              [] k = "bool" -> OkW(<<"bool", ev[2]>>)
              [] k = "String" -> OkW(<<"String", ev[2]>>)
              [] k = "u8" ->
                    IF ~IsNeg(ev[2]) /\ MagLeqNat(Abs(ev[2]), 255)
                    THEN OkW(<<"u8", MagToNat(Abs(ev[2]))>>) ELSE Err
              [] k = "Box" ->
                    The({IF inner.st # "ok" THEN inner
                         ELSE IF inner.w = None THEN Panic
                         ELSE OkW(<<"Box", inner.w[2]>>) : inner \in {visit(T[2], ev)}})
              [] k = "Option" ->
                    IF e = "null" THEN OkW(None)
                    ELSE The({IF inner.st # "ok" THEN inner ELSE OkW(inner.w) :
                                inner \in {visit(T[2], ev)}})
              [] k = "Vec" ->
                    IF T[2] = <<"u8">> THEN OkW(<<"Vec", [i \in 1..Len(ev[2]) |-> <<"u8", ev[2][i]>>]>>)
                    ELSE Err
              [] k = "FixedArray" ->
                    IF T[2] = <<"u8">> /\ Len(ev[2]) = T[3]
                    THEN OkW(<<"FixedArray", [i \in 1..Len(ev[2]) |-> <<"u8", ev[2][i]>>]>>)
                    ELSE Err
              [] k = "Tag" ->
                    IF ev[2] = Tag_A THEN OkW(<<"Tag::A">>)
                    ELSE IF ev[2] = Tag_B THEN OkW(<<"Tag::B">>)
                    ELSE Err
              [] k = "StrVisitor" -> tag_value(T[2], ev[2])
              [] k = "Ignore" -> OkNothing


(***************************************************************************)
(* json::to_string.  A String is the sequence of its UTF-8 bytes.          *)
(***************************************************************************)

\* a ValueView::as_str that also accepts an integer key
as_str_lenient(vw) ==
    CASE vw[1] = "Bytes" -> IF from_utf8(vw[2], 1) THEN Some(vw[2]) ELSE None
      [] vw[1] = "Str" -> Some(vw[2])
      [] vw[1] = "Int" -> Some(<<48>>)
      [] OTHER -> None

\* ValueView::as_str
as_str(vw) ==
    CASE vw[1] = "Bytes" -> IF from_utf8(vw[2], 1) THEN Some(vw[2]) ELSE None
      [] vw[1] = "Str" -> Some(vw[2])
      [] OTHER -> None

HEX_DIGITS == <<48, 49, 50, 51, 52, 53, 54, 55, 56, 57, 97, 98, 99, 100, 101, 102>>

\* what escape_str pushes for one byte of the string: ESCAPE[byte]
escape_byte(byte) ==
    CASE byte = 8 -> <<92, 98>>
      [] byte = 9 -> <<92, 116>>
      [] byte = 10 -> <<92, 110>>
      [] byte = 12 -> <<92, 102>>
      [] byte = 13 -> <<92, 114>>
      [] byte = 34 -> <<92, 34>>
      [] byte = 92 -> <<92, 92>>
      [] byte < 32 -> <<92, 117, 48, 48, HEX_DIGITS[(byte \div 16) + 1], HEX_DIGITS[(byte % 16) + 1]>>
      [] OTHER -> <<byte>>

RECURSIVE escape_bytes(_)
escape_bytes(value) ==
    IF value = <<>> THEN <<>> ELSE escape_byte(Head(value)) \o escape_bytes(Tail(value))

escape_str(value) == <<34>> \o escape_bytes(value) \o <<34>>

\* decimal digits of a native number, and of a magnitude (long division of
\* the big-endian bytes by ten)
RECURSIVE Digits(_)
Digits(n) == IF n < 10 THEN <<48 + n>> ELSE Digits(n \div 10) \o <<48 + (n % 10)>>

RECURSIVE DivTen(_, _)
DivTen(m, r) ==
    IF m = <<>> THEN <<r>>
    ELSE <<(r * 256 + Head(m)) \div 10>> \o DivTen(Tail(m), (r * 256 + Head(m)) % 10)

RECURSIVE MagDigits(_)
MagDigits(m) ==
    IF m = <<>> THEN <<>>
    ELSE The({MagDigits(StripZeros(SubSeq(d, 1, Len(m)))) \o <<48 + d[Len(d)]>> :
                d \in {DivTen(m, 0)}})

\* itoa::Buffer::format
itoa(i) ==
    IF Abs(i) = <<>> THEN <<48>>
    ELSE (IF IsNeg(i) THEN <<45>> ELSE <<>>) \o MagDigits(Abs(i))

\* ryu::Buffer::format_finite, for the finite floats the inputs hold
format_finite(f) ==
    CASE f = <<0, 0, 0, 0, 0, 0, 0, 0>> -> <<48, 46, 48>>
      [] f = <<128, 0, 0, 0, 0, 0, 0, 0>> -> <<45, 48, 46, 48>>
      [] f = <<63, 248, 0, 0, 0, 0, 0, 0>> -> <<49, 46, 53>>
      [] f = <<63, 241, 153, 153, 153, 153, 153, 154>> -> <<49, 46, 49>>
      [] f = <<64, 248, 106, 0, 0, 0, 0, 0>> -> <<49, 48, 48, 48, 48, 48, 46, 48>>

is_finite(f) == ~is_infinite(f) /\ ~is_nan(f)

\* the bytes of a ValueView::Bytes as "[1,2,3]"
RECURSIVE fmt_bytes(_)
fmt_bytes(bs) ==
    IF bs = <<>> THEN <<>>
    ELSE IF Len(bs) = 1 THEN Digits(bs[1])
    ELSE Digits(bs[1]) \o <<44>> \o fmt_bytes(Tail(bs))

RECURSIVE to_string_fragment(_, _, _), to_string_next(_, _)

\* The outer loop of to_string at `match fragment`, with the stack stk and
\* out written so far
to_string_fragment(fragment, stk, out) ==
    CASE fragment[1] = "Panic" -> [st |-> "panic", out |-> <<>>]
      [] fragment[1] = "Null" -> to_string_next(stk, out \o <<110, 117, 108, 108>>)
      [] fragment[1] = "Bool" ->
            to_string_next(stk, out \o (IF fragment[2] THEN <<116, 114, 117, 101>>
                                        ELSE <<102, 97, 108, 115, 101>>))
      [] fragment[1] = "Str" -> to_string_next(stk, out \o escape_str(fragment[2]))
      [] fragment[1] = "Bytes" ->
            to_string_next(stk, out \o <<91>> \o fmt_bytes(fragment[2]) \o <<93>>)
      [] fragment[1] = "Int" -> to_string_next(stk, out \o itoa(fragment[2]))
      [] fragment[1] = "F64" ->
            to_string_next(stk, out \o (IF is_finite(BitsOf(fragment[2])) THEN format_finite(fragment[2])
                                        ELSE <<110, 117, 108, 108>>))
      [] fragment[1] = "Seq" ->
            IF fragment[2] = <<>> THEN to_string_next(stk, out \o <<91, 93>>)
            ELSE to_string_fragment(view(Head(fragment[2])),
                                    Append(stk, <<"Seq", Tail(fragment[2])>>), out \o <<91>>)
      [] fragment[1] = "Map" ->
            IF fragment[2] = <<>> THEN to_string_next(stk, out \o <<123, 125>>)
            ELSE The({IF key = None THEN [st |-> "err", out |-> <<>>]
                      ELSE to_string_fragment(view(Head(fragment[2])[2]),
                                              Append(stk, <<"Map", Tail(fragment[2])>>),
                                              out \o <<123>> \o escape_str(key[2]) \o <<58>>) :
                        key \in {as_str(view(Head(fragment[2])[1]))}})

\* The inner loop of to_string: the next element or entry of the innermost
\* layer, or its closing bracket and stack.pop()
to_string_next(stk, out) ==
    IF stk = <<>> THEN [st |-> "ok", out |-> out]
    ELSE
    LET last == stk[Len(stk)]
        rest == SubSeq(stk, 1, Len(stk) - 1)
    IN  CASE last[1] = "Seq" ->
                IF last[2] = <<>> THEN to_string_next(rest, out \o <<93>>)
                ELSE to_string_fragment(view(Head(last[2])),
                                        Append(rest, <<"Seq", Tail(last[2])>>), out \o <<44>>)
          [] last[1] = "Map" ->
                IF last[2] = <<>> THEN to_string_next(rest, out \o <<125>>)
                ELSE The({IF key = None THEN [st |-> "err", out |-> <<>>]
                          ELSE to_string_fragment(view(Head(last[2])[2]),
                                                  Append(rest, <<"Map", Tail(last[2])>>),
                                                  out \o <<44>> \o escape_str(key[2]) \o <<58>>) :
                            key \in {as_str(view(Head(last[2])[1]))}})

\* json::to_string
to_string(value) == to_string_fragment(view(value), <<>>, <<>>)

(***************************************************************************)
(* The values and inputs the specifications draw from                      *)
(***************************************************************************)

MaxLen == 2      \* the most items of a generated array, map or chunk list
MaxRawLen == 2   \* the longest enumerated raw input
MaxInt == 300    \* the small integers 0..MaxInt and -1..-(MaxInt + 1) are encoded
MaxEntries == 3  \* an Object is inserted into while it has fewer entries than this
MaxLeaked == 1   \* from_slice is called again while CUR_DEPTH is at most this
MaxNesting == 2  \* the most containers around a value that is dropped
MaxDeeply == 4   \* the most repetitions of the deeply nested JSON text

Range(q) == {q[i] : i \in 1..Len(q)}

SeqsUpTo(S, n) == UNION {[1..k -> S] : k \in 0..n}

RECURSIVE Concat(_)
Concat(ss) == IF ss = <<>> THEN <<>> ELSE Head(ss) \o Concat(Tail(ss))

PosMags ==
    {<<>>, <<4>>, <<23>>, <<24>>, <<255>>, <<1, 0>>, <<1, 43>>, <<255, 255>>, <<1, 0, 0>>,
     <<255, 255, 255, 255>>, <<1, 0, 0, 0, 0>>, U64_MAX}
Ints == {IntOf(FALSE, m) : m \in PosMags} \cup {IntOf(TRUE, MagInc(m)) : m \in PosMags}
SmallInts ==
    {IntOf(FALSE, NatMag(n)) : n \in 0..MaxInt} \cup {IntOf(TRUE, NatMag(n + 1)) : n \in 0..MaxInt}
OutOfRange == {IntOf(FALSE, TWO_POW_64), IntOf(TRUE, MagInc(TWO_POW_64))}

F64s ==
    {<<0, 0, 0, 0, 0, 0, 0, 0>>, <<128, 0, 0, 0, 0, 0, 0, 0>>,
     <<63, 248, 0, 0, 0, 0, 0, 0>>, <<63, 241, 153, 153, 153, 153, 153, 154>>,
     <<64, 248, 106, 0, 0, 0, 0, 0>>, <<127, 240, 0, 0, 0, 0, 0, 0>>,
     <<127, 248, 0, 0, 0, 0, 0, 1>>}
\* 12.3, 4000.5 and 42.5 of tests::std, and floats at the edges of the
\* widths: 65504 and 65520, 2^-24 and 2^-25, the largest f32, 2^-149 and
\* 2^-150, 1 + 2^-10, 1 + 2^-11, 1 + 2^-23 and 1 + 2^-24, -2.5, the least
\* positive f64, a large f64, -infinity and two more NaNs
F64_12_3 == <<64, 40, 153, 153, 153, 153, 153, 154>>
F64_4000_5 == <<64, 175, 65, 0, 0, 0, 0, 0>>
F64_42_5 == <<64, 69, 64, 0, 0, 0, 0, 0>>
TestF64s ==
    {F64_12_3, F64_4000_5, F64_42_5,
     <<64, 239, 252, 0, 0, 0, 0, 0>>, <<64, 239, 254, 0, 0, 0, 0, 0>>,
     <<62, 112, 0, 0, 0, 0, 0, 0>>, <<62, 96, 0, 0, 0, 0, 0, 0>>,
     <<71, 239, 255, 255, 224, 0, 0, 0>>,
     <<54, 160, 0, 0, 0, 0, 0, 0>>, <<54, 144, 0, 0, 0, 0, 0, 0>>,
     <<63, 240, 4, 0, 0, 0, 0, 0>>, <<63, 240, 2, 0, 0, 0, 0, 0>>,
     <<63, 240, 0, 0, 32, 0, 0, 0>>, <<63, 240, 0, 0, 16, 0, 0, 0>>,
     <<192, 4, 0, 0, 0, 0, 0, 0>>, <<0, 0, 0, 0, 0, 0, 0, 1>>,
     <<126, 55, 228, 60, 136, 0, 117, 156>>, <<255, 240, 0, 0, 0, 0, 0, 0>>,
     <<255, 248, 0, 0, 0, 0, 0, 0>>, <<127, 240, 0, 0, 0, 0, 0, 1>>}
Strs == {<<>>, <<97>>, <<97, 98>>, <<195, 169>>}
ByteStrs == {<<>>, <<1>>, <<1, 200>>}

Pos(n) == Integer(IntOf(FALSE, NatMag(n)))
Neg(n) == Integer(IntOf(TRUE, NatMag(n)))
Zero == Integer(IntOf(FALSE, <<>>))
MinusOne == Integer(IntOf(TRUE, <<1>>))

Atoms ==
    {Null, Bool(FALSE), Bool(TRUE)} \cup {Integer(i) : i \in Ints}
        \cup {Float(f) : f \in F64s} \cup {Text(t) : t \in Strs}
Elems == {Zero, MinusOne, Text(<<97>>), Null}
Keys == {Zero, Text(<<97>>), Array(<<>>)}

\* The Object the program builds by inserting the entries ps in turn
RECURSIVE ObjectOf(_)
ObjectOf(ps) ==
    IF ps = <<>> THEN <<>>
    ELSE insert(ObjectOf(SubSeq(ps, 1, Len(ps) - 1)), ps[Len(ps)][1], ps[Len(ps)][2]).m

\* The values that are dropped: up to d containers around a scalar, with
\* the nested value as an array element, a map key, a map value or the
\* content of a tag
RECURSIVE DropNest(_)
DropNest(d) ==
    IF d = 0 THEN {Null, Zero}
    ELSE LET S == DropNest(d - 1) IN
        S \cup {Array(<<a>>) : a \in S} \cup {Array(<<a, Zero>>) : a \in S}
          \cup {Map(<< <<k, Null>> >>) : k \in S} \cup {Map(<< <<Zero, v>> >>) : v \in S}
          \cup {Tag(<<1>>, a) : a \in S}

DropValues == DropNest(MaxNesting)

Arrays == {Array(a) : a \in SeqsUpTo(Elems, MaxLen)}
Maps == {Map(ObjectOf(ps)) : ps \in SeqsUpTo(Keys \X {Null, Zero}, MaxLen)}
Nested ==
    {Array(<<c>>) : c \in Arrays \cup Maps}
        \cup {Map(<< <<Zero, c>> >>) : c \in Arrays \cup Maps}
        \cup {Array(<<Array(<<Array(<<Zero>>)>>)>>), Map(<< <<Array(<<Zero>>), Map(<<>>)>> >>)}
WithBytes ==
    {Bytes(b) : b \in ByteStrs}
        \cup {Array(<<Bytes(<<1>>)>>), Map(<< <<Zero, Bytes(<<>>)>> >>), Map(<< <<Bytes(<<1>>), Null>> >>),
              Map(ObjectOf(<< <<Array(<<Pos(1)>>), Null>>, <<Bytes(<<1>>), Zero>> >>))}

\* Values every part of which to_vec can encode
SerValues == Atoms \cup Arrays \cup Maps \cup Nested \cup WithBytes

\* Values holding an integer outside the CBOR range, or a Tag
BadValues ==
    {Integer(i) : i \in OutOfRange}
        \cup {Array(<<Integer(i)>>) : i \in OutOfRange}
        \cup {Array(<<Zero, Array(<<Integer(i)>>)>>) : i \in OutOfRange}
        \cup {Map(<< <<Zero, Integer(i)>> >>) : i \in OutOfRange}
        \cup {Map(<< <<Integer(i), Null>> >>) : i \in OutOfRange}
        \cup {Array(<<Map(<< <<Integer(i), Null>> >>)>>) : i \in OutOfRange}
        \cup {Tag(<<1>>, Null), Array(<<Tag(<<1>>, Zero)>>)}
        \cup {Map(<< <<Zero, Tag(<<1>>, Zero)>> >>), Map(<< <<Tag(<<1>>, Zero), Null>> >>),
              Array(<<Zero, Map(<< <<Zero, Array(<<Tag(<<2>>, Text(<<97>>))>>)>> >>)>>)}

Value_ty == <<"Value">>
Types ==
    {Value_ty, <<"unit">>, <<"bool">>, <<"String">>, <<"u8">>, <<"Enum">>,
     <<"Option", <<"bool">>>>, <<"Option", <<"Enum">>>>,
     <<"Box", <<"bool">>>>, <<"Box", <<"Enum">>>>, <<"Box", Value_ty>>,
     <<"Vec", <<"u8">>>>, <<"Vec", <<"bool">>>>, <<"Tuple", <<"bool">>, <<"u8">>>>}

\* struct Nested { y: Option<Vec<String>>, z: Option<String> } and
\* struct Example { x: String, t1: Tag, t2: Tag, n: Nested } of
\* tests/test_derive.rs
Nested_ty ==
    <<"Struct", "Nested",
      << <<<<121>>, <<"Option", <<"Vec", <<"String">>>>>>>>,
         <<<<122>>, <<"Option", <<"String">>>>>> >>>>
Example_ty ==
    <<"Struct", "Example",
      << <<<<120>>, <<"String">>>>, <<<<116, 49>>, <<"Tag">>>>, <<<<116, 50>>, <<"Tag">>>>,
         <<<<110>>, Nested_ty>> >>>>

\* #[derive(Deserialize)] struct Holder { e: Enum, v: Vec<u8>, b: bool }
Holder_ty ==
    <<"Struct", "Holder",
      << <<<<101>>, <<"Enum">>>>, <<<<118>>, <<"Vec", <<"u8">>>>>>, <<<<98>>, <<"bool">>>> >>>>

Input(bs, T, form, v) == [bytes |-> bs, ty |-> T, orig |-> <<form, v>>]

\* One entry of an encoded map: the key as a Value and the encoded value
Pair(k, v) == [k |-> k, v |-> v]

\* the map with the entries ps, in their order, with a definite length
EncodePairs(ps) ==
    write_u64(MAP, NatMag(Len(ps)))
        \o Concat([i \in 1..Len(ps) |-> to_vec(ps[i].k).out \o ps[i].v])

InsertAt(q, i, x) == SubSeq(q, 1, i) \o <<x>> \o SubSeq(q, i + 1, Len(q))
RemoveAt(q, i) == SubSeq(q, 1, i - 1) \o SubSeq(q, i + 1, Len(q))

\* the object of test_de, {"x": "X", "t1": "A", "t2": "renamedB",
\* "n": {"y": ["Y", "Y"]}}, and complete objects for Nested and Holder
BaseOf(T) ==
    CASE T = Example_ty ->
            <<Pair(Text(<<120>>), to_vec(Text(<<88>>)).out),
              Pair(Text(<<116, 49>>), to_vec(Text(Tag_A)).out),
              Pair(Text(<<116, 50>>), to_vec(Text(Tag_B)).out),
              Pair(Text(<<110>>),
                   to_vec(Map(<< <<Text(<<121>>), Array(<<Text(<<89>>), Text(<<89>>)>>)>> >>)).out)>>
      [] T = Nested_ty ->
            <<Pair(Text(<<121>>), to_vec(Array(<<Text(<<89>>), Text(<<89>>)>>)).out),
              Pair(Text(<<122>>), to_vec(Text(<<90>>)).out)>>
      [] T = Holder_ty ->
            <<Pair(Text(<<101>>), to_vec(Map(<< <<Text(VARIANT_a), Bool(TRUE)>> >>)).out),
              Pair(Text(<<118>>), <<66, 1, 200>>),
              Pair(Text(<<98>>), <<245>>)>>

\* further entries for the fields: other values of the field types
Again(T) ==
    CASE T = Example_ty ->
            {Pair(Text(<<120>>), to_vec(Text(<<89>>)).out),
             Pair(Text(<<116, 49>>), to_vec(Text(Tag_B)).out),
             Pair(Text(<<110>>), <<160>>)}
      [] T = Nested_ty ->
            {Pair(Text(<<121>>), <<128>>), Pair(Text(<<121>>), <<246>>),
             Pair(Text(<<122>>), to_vec(Text(<<>>)).out)}
      [] T = Holder_ty ->
            {Pair(Text(<<101>>), to_vec(Map(<< <<Text(VARIANT_b), Pos(7)>> >>)).out),
             Pair(Text(<<118>>), <<129, 7>>),
             Pair(Text(<<98>>), <<244>>)}

\* entries whose key names no field, with values of every kind: scalars,
\* strings, nested arrays and maps, and indefinite-length items
Unknown ==
    {Pair(Text(<<117>>), to_vec(v).out) :
        v \in {Null, Bool(TRUE), Pos(300), Neg(1), Text(<<120>>), Float(<<63, 248, 0, 0, 0, 0, 0, 0>>),
               Array(<<>>), Array(<<Array(<<Array(<<Zero>>)>>), Text(<<97>>)>>),
               Map(<< <<Zero, Map(<< <<Text(<<120>>), Array(<<Null>>)>> >>)>> >>)}}
        \cup {Pair(Text(<<117>>), bs) : bs \in {<<66, 1, 200>>, <<159, 255>>, <<127, 65, 97, 255>>}}
        \cup {Pair(Text(<<120, 120>>), <<246>>), Pair(Zero, <<246>>), Pair(Bytes(<<>>), <<246>>)}

StructTypes == {Example_ty, Nested_ty, Holder_ty}

\* #[derive(Deserialize)] #[serde(tag = "kind")]
\* enum Message<T> { Request { id: T, method: String }, _Response { id: T },
\*                   _Empty, _Empty2 {} }
\* of tests/test_derive.rs with T = u8; a variant's type is the helper struct
\* the derive declares for it
VARIANT_Request == <<82, 101, 113, 117, 101, 115, 116>>
VARIANT_Response == <<95, 82, 101, 115, 112, 111, 110, 115, 101>>
VARIANT_Empty == <<95, 69, 109, 112, 116, 121>>
VARIANT_Empty2 == <<95, 69, 109, 112, 116, 121, 50>>
FIELD_id == <<105, 100>>
FIELD_method == <<109, 101, 116, 104, 111, 100>>
Message_ty ==
    <<"Tagged",
      << <<VARIANT_Request,
           <<"Struct", "__Helper_Request",
             << <<FIELD_id, <<"u8">>>>, <<FIELD_method, <<"String">>>> >>>>>>,
         <<VARIANT_Response, <<"Struct", "__Helper__Response", << <<FIELD_id, <<"u8">>>> >>>>>>,
         <<VARIANT_Empty, <<"Struct", "Empty", <<>>>>>>,
         <<VARIANT_Empty2, <<"Struct", "__Helper__Empty2", <<>>>>>> >>>>

MaxKeys == 3     \* the most entries of a map decoded into Message

\* the entries of the maps decoded into Message: the tag with the name of a
\* variant, of no variant and with a number, the fields, an unknown key and
\* a key that is no string
TaggedPairs ==
    {Pair(Text(TAG_NAME), to_vec(Text(n)).out) :
        n \in {VARIANT_Request, VARIANT_Response, VARIANT_Empty2, <<78, 111, 112, 101>>}}
        \cup {Pair(Text(TAG_NAME), <<7>>), Pair(Text(FIELD_id), <<24, 42>>),
              Pair(Text(FIELD_method), to_vec(Text(<<102, 111, 111>>)).out),
              Pair(Text(<<117>>), <<246>>), Pair(Zero, <<246>>)}

\* tuple structs: struct Pair(u8, bool), struct OptFirst(Option<bool>, u8),
\* struct OptLast(u8, Option<bool>), struct Triple(u8, Option<bool>, String)
Pair_ty == <<"TupleStruct", "Pair", << <<"u8">>, <<"bool">> >>>>
OptFirst_ty == <<"TupleStruct", "OptFirst", << <<"Option", <<"bool">>>>, <<"u8">> >>>>
OptLast_ty == <<"TupleStruct", "OptLast", << <<"u8">>, <<"Option", <<"bool">>>> >>>>
Triple_ty ==
    <<"TupleStruct", "Triple", << <<"u8">>, <<"Option", <<"bool">>>>, <<"String">> >>>>
TupleStructTypes == {Pair_ty, OptFirst_ty, OptLast_ty, Triple_ty}

\* encoded items for a field of type F, each with the value it stands for
Samples(F) ==
    CASE F = <<"u8">> -> {<<<<7>>, <<"u8", 7>>>>}
      [] F = <<"bool">> -> {<<<<245>>, <<"bool", TRUE>>>>}
      [] F = <<"String">> -> {<<<<97, 97>>, <<"String", <<97>>>>>>}
      [] F = <<"Option", <<"bool">>>> -> {<<<<245>>, Some(<<"bool", TRUE>>)>>, <<<<246>>, None>>}

\* the sequences decoded into the tuple struct T: up to one element more than
\* T has fields, the i-th one an item for the i-th field (the last field, for
\* the one too many)
UnnamedLists(T) ==
    LET n == Len(T[3])
        All == UNION {Samples(T[3][i]) : i \in 1..n}
    IN  UNION {{es \in [1..k -> All] :
                    \A i \in 1..k : es[i] \in Samples(T[3][IF i > n THEN n ELSE i])} :
                k \in 0..(n + 1)}

\* The objects decoded into the struct T: the complete one, it with one
\* entry left out, and these with one more entry put in at any place
StructLists(T) ==
    {BaseOf(T), <<>>}
        \cup {RemoveAt(BaseOf(T), i) : i \in 1..Len(BaseOf(T))}
        \cup {InsertAt(BaseOf(T), i, u) : i \in 0..Len(BaseOf(T)), u \in Unknown \cup Again(T)}
        \cup {InsertAt(RemoveAt(BaseOf(T), 1), 0, u) : u \in Unknown}

\* a sequence of n elements for the fixed-arity type T, and a byte string of
\* n bytes
ArityTypes ==
    {<<"Tuple", <<"bool">>, <<"u8">>>>, <<"FixedArray", <<"bool">>, 2>>,
     <<"FixedArray", <<"u8">>, 2>>, <<"FixedArray", <<"u8">>, 1>>}
Elements(T, n) ==
    write_u64(SEQ, NatMag(n))
        \o [i \in 1..n |-> IF T[2] = <<"bool">> /\ (T[1] = "FixedArray" \/ i = 1)
                            THEN 245 ELSE 7]

\* the encoding of the container c with its length left indefinite
Indefinite(c) ==
    LET e == to_vec(c).out
        h == Len(write_u64(major_type(c), NatMag(Len(c[2]))))
    IN  <<major_type(c) * 32 + UNKNOWN_LEN>> \o SubSeq(e, h + 1, Len(e)) \o <<255>>

\* the chunks cs as an indefinite-length string of the major type m
Chunked(m, cs) ==
    <<m * 32 + UNKNOWN_LEN>>
        \o Concat([i \in 1..Len(cs) |-> write_u64(m, NatMag(Len(cs[i]))) \o cs[i]])
        \o <<255>>

\* One item for every Visitor method, as <<bytes, method, argument>>, and the
\* types whose visitors leave some of the methods at their defaults
Events ==
    {<<<<246>>, "null", <<>>>>, <<<<245>>, "boolean", <<>>>>, <<<<97, 97>>, "string", <<>>>>,
     <<<<7>>, "int", <<>>>>, <<<<249, 62, 0>>, "float", <<>>>>,
     <<<<128>>, "seq", <<>>>>, <<<<160>>, "map", <<>>>>}
        \cup {<<write_u64(BYTE_SLICE, NatMag(Len(xs))) \o xs, "bytes", xs>> :
                xs \in {<<>>, <<7>>, <<7, 200>>, <<7, 200, 0>>}}
Tuple_u8_u8 == <<"Tuple", <<"u8">>, <<"u8">>>>
EventTypes ==
    {Value_ty, <<"unit">>, <<"bool">>, <<"String">>, <<"u8">>, <<"Enum">>,
     <<"Tuple", <<"bool">>, <<"u8">>>>, Tuple_u8_u8, Nested_ty, Example_ty}

RawBytes == {0, 24, 65, 95, 96, 127, 129, 159, 160, 191, 245, 246, 255}

Handmade ==
    {<<161, 97, 97, 245>>, <<161, 97, 98, 7>>, <<162, 97, 97, 245, 97, 98, 7>>,
     <<161, 97, 99, 245>>, <<161, 0, 245>>, <<130, 245, 7>>, <<131, 245, 7, 7>>,
     <<129, 245, 0>>, <<66, 1, 200>>, <<127, 65, 97, 255>>, <<127, 65, 255, 255>>,
     <<95, 97, 97, 255>>, <<198, 0>>, <<249, 62, 0>>, <<250, 71, 195, 80, 0>>,
     <<27, 255, 255, 255, 255, 255, 255, 255, 255>>, <<59, 255, 255, 255, 255, 255, 255, 255, 255>>,
     <<155, 255, 255, 255, 255, 255, 255, 255, 255, 0>>, <<91, 0, 0, 0, 1, 0, 0, 0, 0, 1>>,
     <<159, 0, 255, 0>>, <<191, 0, 0, 255>>}

\* n arrays inside one another, n maps as one another's only value, and n
\* maps as one another's only key, around the item 0
Deep(n) ==
    {[i \in 1..n |-> 129] \o <<0>>,
     [i \in 1..(2 * n) |-> IF i % 2 = 1 THEN 161 ELSE 0] \o <<0>>,
     [i \in 1..n |-> 161] \o [i \in 1..(n + 1) |-> 0]}

\* the head of major type m whose argument v is written in the w bytes that
\* follow it, or in the head byte itself for w = 0
Widths == {0, 1, 2, 4, 8}
Fits(v, w) == IF w = 0 THEN MagLeqNat(v, SMALL_U8_MAX) ELSE Len(v) <= w
HeadOfWidth(m, v, w) ==
    IF w = 0 THEN <<m * 32 + MagToNat(v)>>
    ELSE <<m * 32 + (CASE w = 1 -> U8 [] w = 2 -> U16 [] w = 4 -> U32 [] OTHER -> U64)>>
            \o PadZeros(v, w)

\* what follows the head in the encoding of the string or container c
BodyOf(c) ==
    LET e == to_vec(c).out
        h == Len(write_u64(major_type(c), NatMag(Len(c[2]))))
    IN  SubSeq(e, h + 1, Len(e))

\* items as <<major type, argument, body, the Value they stand for>>: the
\* integers, the strings and the containers
WidthItems ==
    {<<POS_INT, m, <<>>, Integer(IntOf(FALSE, m))>> : m \in PosMags \cup {<<5>>}}
        \cup {<<NEG_INT, m, <<>>, Integer(IntOf(TRUE, MagInc(m)))>> : m \in PosMags \cup {<<5>>}}
        \cup {<<STR, NatMag(Len(t)), t, Text(t)>> : t \in Strs}
        \cup {<<BYTE_SLICE, NatMag(Len(b)), b,
                Array([i \in 1..Len(b) |-> Integer(IntOf(FALSE, NatMag(b[i])))])>> :
                b \in ByteStrs}
        \cup {<<major_type(c), NatMag(Len(c[2])), BodyOf(c), c>> : c \in Arrays \cup Maps}

WidthInputs ==
    {Input(HeadOfWidth(x[1][1], x[1][2], x[2]) \o x[1][3], Value_ty, "width",
           <<x[2], x[1][4]>>) :
        x \in {y \in WidthItems \X Widths : Fits(y[1][2], y[2])}}
        \cup {Input(<<7 * 32 + t>>, Value_ty, "width", <<0, Null>>) :
                t \in {UNIT_CANONICAL, UNIT_ALTERNATIVE}}

Inputs ==
    {Input(to_vec(v).out, Value_ty, "to_vec", v) : v \in SerValues}
        \cup {Input(Indefinite(c), Value_ty, "indefinite", c) : c \in Arrays \cup Maps}
        \cup {Input(<<129>> \o Indefinite(c), Value_ty, "indefinite", Array(<<c>>)) :
                c \in Arrays \cup Maps}
        \cup {Input(Chunked(BYTE_SLICE, cs), <<"Vec", <<"u8">>>>, "chunked",
                    <<"Vec", [i \in 1..Len(Concat(cs)) |-> <<"u8", Concat(cs)[i]>>]>>) :
                cs \in SeqsUpTo(ByteStrs, MaxLen)}
        \cup {Input(Chunked(STR, cs), <<"String">>, "chunked", <<"String", Concat(cs)>>) :
                cs \in SeqsUpTo(Strs, MaxLen)}
        \cup {Input(bs, T, "raw", Null) : bs \in SeqsUpTo(RawBytes, MaxRawLen) \cup Handmade,
                                          T \in Types}
        \cup UNION {{Input(EncodePairs(ps), T, "struct", ps) : ps \in StructLists(T)} :
                        T \in StructTypes}
        \cup {Input(Elements(T, n), T, "arity", n) : T \in ArityTypes, n \in 0..(MaxLen + 1)}
        \cup {Input(write_u64(BYTE_SLICE, NatMag(n)) \o [i \in 1..n |-> 7], T, "arity", n) :
                T \in {<<"FixedArray", <<"u8">>, 2>>, <<"FixedArray", <<"bool">>, 2>>},
                n \in 0..(MaxLen + 1)}
        \cup {Input(ev[1], T, "event", <<ev[2], ev[3]>>) : ev \in Events, T \in EventTypes}
        \cup {Input(bs, Value_ty, "deep", Null) :
                bs \in Deep(MAX_DEPTH) \cup Deep(MAX_DEPTH + 1) \cup Deep(MAX_DEPTH + 2)}
        \cup WidthInputs
        \cup {Input(EncodePairs(ps), Message_ty, "tagged", ps) :
                ps \in SeqsUpTo(TaggedPairs, MaxKeys)}
        \cup UNION {{Input(write_u64(SEQ, NatMag(Len(es)))
                                \o Concat([i \in 1..Len(es) |-> es[i][1]]),
                            T, "unnamed", es) : es \in UnnamedLists(T)} :
                        T \in TupleStructTypes}


(***************************************************************************)
(* cbor::from_slice as a state machine.  pc is                             *)
(*   "idle"  no call of from_slice is running                              *)
(*   "item"  from_slice_impl was entered for the visitor of type vty       *)
(*   "loop"  the innermost from_slice_impl is at the head of its loop      *)
(*   "enter" recurse_checked was called for the visitor of type vty        *)
(*   "ret"   a from_slice_impl returned ret to what called it              *)
(*   "after" a recurse_checked returned ret into the innermost loop        *)
(*   "done"  from_slice returned result                                    *)
(***************************************************************************)

NoResult == [st |-> "none", v |-> <<>>]
NotRun == [fn |-> "none", st |-> "none", out |-> <<>>]

\* a from_slice that does not look at what is left of the input
from_slice_result_unchecked(r, empty) ==
    IF r.st = "ok" /\ r.w # None THEN [st |-> "ok", v |-> r.w[2]]
    ELSE [st |-> "err", v |-> <<>>]

\* The tail of from_slice: and_then(trailing check) and ok_or(Error), for
\* the outcome r of the top-level from_slice_impl
from_slice_result(r, empty) ==
    IF r.st = "ok" /\ empty /\ r.w # None THEN [st |-> "ok", v |-> r.w[2]]
    ELSE [st |-> "err", v |-> <<>>]

Top == stack[Len(stack)]
Pop == SubSeq(stack, 1, Len(stack) - 1)
ReplaceTop(f) == [stack EXCEPT ![Len(stack)] = f]

Init ==
    /\ bytes = <<>> /\ ty = Value_ty /\ orig = <<"raw", Null>>
    /\ cursor = 1 /\ CUR_DEPTH = 0 /\ stack = <<>>
    /\ pc = "idle" /\ vty = Value_ty /\ ret = OkNothing /\ nesting = 0
    /\ result = NoResult
    /\ ser_in = Null /\ ser_out = NotRun
    /\ cmp_in = <<>> /\ cmp_out = <<>>
    /\ drop_in = Null /\ calls = <<>> /\ popped = <<>>
    /\ json = JsonIdle
    /\ num = NumIdle

\* The program calls from_slice::<T>(bytes); out = None, cursor = bytes.iter()
Call ==
    /\ pc = "idle"
    /\ CUR_DEPTH <= MaxLeaked
    /\ \E inp \in Inputs :
        /\ bytes' = inp.bytes
        /\ ty' = inp.ty
        /\ orig' = inp.orig
        /\ vty' = inp.ty
    /\ cursor' = 1 /\ stack' = <<>> /\ ret' = OkNothing /\ nesting' = 0
    /\ result' = NoResult
    /\ pc' = "item"
    /\ UNCHANGED <<CUR_DEPTH, ser_in, ser_out, cmp_in, cmp_out, dropVars, json, num>>

\* from_slice_impl: `bytes.next()?` finds nothing, or an arm without nested
\* items runs and calls its Visitor method
FromSliceImplScalar ==
    /\ pc = "item"
    /\ IF cursor > Len(bytes) THEN TRUE
       ELSE major_and_tag(bytes[cursor])[1] \notin {SEQ, MAP}
    /\ nesting' = IF Len(stack) > nesting THEN Len(stack) ELSE nesting
    /\ IF cursor > Len(bytes) THEN ret' = Err /\ UNCHANGED cursor
       ELSE \E it \in {scalar_item(bytes, cursor)} :
                /\ cursor' = it.pos
                /\ ret' = IF it.ok THEN visit(vty, it.ev) ELSE Err
    /\ pc' = "ret"
    /\ UNCHANGED <<bytes, ty, orig, CUR_DEPTH, stack, vty, result,
                   ser_in, ser_out, cmp_in, cmp_out, dropVars, json, num>>

\* from_slice_impl: the head of an array or of a map; the length is parsed,
\* visitor.seq() or visitor.map() makes the builder, and the loop begins
FromSliceImplContainer ==
    /\ pc = "item"
    /\ cursor <= Len(bytes)
    /\ major_and_tag(bytes[cursor])[1] \in {SEQ, MAP}
    /\ nesting' = IF Len(stack) > nesting THEN Len(stack) ELSE nesting
    /\ \E m \in {major_and_tag(bytes[cursor])[1]}, tag \in {major_and_tag(bytes[cursor])[2]} :
       \E n \in {IF tag = UNKNOWN_LEN THEN [ok |-> TRUE, v |-> <<>>, pos |-> cursor + 1]
                 ELSE parse_u64(tag, bytes, cursor + 1)},
          s \in {IF m = SEQ THEN seq(vty) ELSE map(vty)} :
           /\ cursor' = n.pos
           /\ IF ~n.ok \/ s.st # "ok"
              THEN ret' = Err /\ pc' = "ret" /\ UNCHANGED stack
              ELSE /\ stack' = Append(stack, [arm |-> m, indef |-> tag = UNKNOWN_LEN,
                                              left |-> n.v, b |-> s.b, phase |-> "item"])
                   /\ pc' = "loop"
                   /\ UNCHANGED ret
    /\ UNCHANGED <<bytes, ty, orig, CUR_DEPTH, vty, result, ser_in, ser_out, cmp_in, cmp_out, dropVars, json, num>>

\* The head of the loop of the innermost array or map: `for _ in 0..len`, or
\* the peek for the break code; then seq.finish() / map.finish(), or
\* seq.element() / map.val_with_key() and the call of recurse_checked
Loop ==
    /\ pc = "loop"
    /\ \E f \in {Top} :
        IF f.indef /\ cursor > Len(bytes)
        THEN stack' = Pop /\ ret' = Err /\ pc' = "ret" /\ UNCHANGED vty
        ELSE IF (IF f.indef THEN major_and_tag(bytes[cursor]) = BREAK_CODE
                 ELSE f.left = <<>>)
            THEN /\ stack' = Pop
                 /\ ret' = IF f.arm = SEQ THEN seq_finish(f.b) ELSE map_finish(f.b)
                 /\ pc' = "ret"
                 /\ UNCHANGED vty
        ELSE \E el \in {IF f.arm = SEQ THEN element(f.b) ELSE val_with_key(f.b)} :
            IF el.st # "ok"
            THEN /\ stack' = Pop
                 /\ ret' = [st |-> el.st, w |-> None]
                 /\ pc' = "ret"
                 /\ UNCHANGED vty
            ELSE /\ stack' = ReplaceTop([f EXCEPT !.b = el.b,
                                          !.left = IF f.indef THEN <<>> ELSE MagDec(f.left),
                                          !.phase = IF f.arm = SEQ THEN "item" ELSE "key"])
                 /\ vty' = el.ty
                 /\ pc' = "enter"
                 /\ UNCHANGED ret
    /\ UNCHANGED <<bytes, ty, orig, cursor, CUR_DEPTH, nesting, result,
                   ser_in, ser_out, cmp_in, cmp_out, dropVars, json, num>>

\* recurse_checked up to its call of from_slice_impl: CUR_DEPTH.replace(get + 1)
\* and the comparison of the old depth; err! returns from recurse_checked at
\* once, past the line that takes the 1 back
RecurseChecked ==
    /\ pc = "enter"
    /\ CUR_DEPTH' = CUR_DEPTH + 1
    /\ IF CUR_DEPTH > MAX_DEPTH THEN ret' = Err /\ pc' = "after"
       ELSE pc' = "item" /\ UNCHANGED ret
    /\ UNCHANGED <<bytes, ty, orig, cursor, stack, vty, nesting, result,
                   ser_in, ser_out, cmp_in, cmp_out, dropVars, json, num>>

\* recurse_checked after from_slice_impl returned: CUR_DEPTH.set(get - 1)
RecurseCheckedReturn ==
    /\ pc = "ret"
    /\ stack # <<>>
    /\ ret.st # "panic"
    /\ CUR_DEPTH' = CUR_DEPTH - 1
    /\ pc' = "after"
    /\ UNCHANGED <<bytes, ty, orig, cursor, stack, vty, ret, nesting, result,
                   ser_in, ser_out, cmp_in, cmp_out, dropVars, json, num>>

\* The innermost loop takes what recurse_checked returned: `?` on an error,
\* else the rest of val_with_key after a key, or the next turn of the loop
Resume ==
    /\ pc = "after"
    /\ \E f \in {Top} :
        IF ret.st # "ok" THEN stack' = Pop /\ pc' = "ret" /\ UNCHANGED <<vty, ret>>
        ELSE IF f.phase = "item"
            THEN /\ stack' = ReplaceTop([f EXCEPT !.b = element_write(f.b, ret.w)])
                 /\ pc' = "loop"
                 /\ UNCHANGED <<vty, ret>>
        ELSE IF f.phase = "key"
            THEN \E kd \in {key_done(f.b, ret.w)} :
                    IF kd.st # "ok"
                    THEN stack' = Pop /\ ret' = Err /\ pc' = "ret" /\ UNCHANGED vty
                    ELSE /\ stack' = ReplaceTop([f EXCEPT !.b = kd.b, !.phase = "value"])
                         /\ vty' = kd.ty
                         /\ pc' = "enter"
                         /\ UNCHANGED ret
        ELSE /\ stack' = ReplaceTop([f EXCEPT !.b = value_write(f.b, ret.w)])
             /\ pc' = "loop"
             /\ UNCHANGED <<vty, ret>>
    /\ UNCHANGED <<bytes, ty, orig, cursor, CUR_DEPTH, nesting, result,
                   ser_in, ser_out, cmp_in, cmp_out, dropVars, json, num>>

\* A panic unwinds through every from_slice_impl and recurse_checked on the
\* stack; no CUR_DEPTH.set(get - 1) runs
Unwind ==
    /\ pc = "ret"
    /\ ret.st = "panic"
    /\ stack' = <<>>
    /\ result' = [st |-> "panic", v |-> <<>>]
    /\ pc' = "done"
    /\ UNCHANGED <<bytes, ty, orig, cursor, CUR_DEPTH, vty, ret, nesting,
                   ser_in, ser_out, cmp_in, cmp_out, dropVars, json, num>>

\* The top-level from_slice_impl returned: from_slice checks for trailing
\* bytes and returns
FromSlice ==
    /\ pc = "ret"
    /\ stack = <<>>
    /\ ret.st # "panic"
    /\ result' = from_slice_result(ret, cursor > Len(bytes))
    /\ pc' = "done"
    /\ UNCHANGED <<bytes, ty, orig, cursor, CUR_DEPTH, stack, vty, ret, nesting,
                   ser_in, ser_out, cmp_in, cmp_out, dropVars, json, num>>

\* The caller drops the Result and the input; the thread lives on with its
\* CUR_DEPTH (a panic ended the thread)
DropResult ==
    /\ pc = "done"
    /\ result.st # "panic"
    /\ bytes' = <<>> /\ ty' = Value_ty /\ orig' = <<"raw", Null>>
    /\ cursor' = 1 /\ vty' = Value_ty /\ ret' = OkNothing /\ nesting' = 0
    /\ result' = NoResult
    /\ pc' = "idle"
    /\ UNCHANGED <<CUR_DEPTH, stack, ser_in, ser_out, cmp_in, cmp_out, dropVars, json, num>>

\* the entries of ps whose key names a field of the struct T
WithoutUnknown(ps, T) ==
    SelectSeq(ps, LAMBDA e : \E i \in 1..Len(T[3]) : e.k = Text(T[3][i][1]))

\* ps without the entries whose key an earlier entry has
RECURSIVE FirstOnly(_)
FirstOnly(ps) ==
    IF ps = <<>> THEN <<>>
    ELSE The({IF \E i \in 1..Len(front) : front[i].k = ps[Len(ps)].k THEN front
              ELSE Append(front, ps[Len(ps)]) :
                front \in {FirstOnly(SubSeq(ps, 1, Len(ps) - 1))}})

\* The program decodes the object again, into the same struct, without the
\* entries that name no field, or without the later entries of repeated
\* keys, and keeps the first outcome to compare
Redecode ==
    /\ pc = "done"
    /\ orig[1] = "struct"
    /\ result.st # "panic"
    /\ \E form \in {"without_unknown", "first_only"} :
       \E qs \in {IF form = "first_only" THEN FirstOnly(orig[2])
                  ELSE WithoutUnknown(orig[2], ty)} :
            /\ qs # orig[2]
            /\ bytes' = EncodePairs(qs)
            /\ orig' = <<form, qs, result, orig[2]>>
    /\ cursor' = 1 /\ stack' = <<>> /\ ret' = OkNothing /\ nesting' = 0
    /\ vty' = ty
    /\ result' = NoResult
    /\ pc' = "item"
    /\ UNCHANGED <<ty, CUR_DEPTH, ser_in, ser_out, cmp_in, cmp_out, dropVars, json, num>>

Next ==
    \/ Call
    \/ FromSliceImplScalar
    \/ FromSliceImplContainer
    \/ Loop
    \/ RecurseChecked
    \/ RecurseCheckedReturn
    \/ Resume
    \/ Unwind
    \/ FromSlice
    \/ DropResult
    \/ Redecode

Spec == Init /\ [][Next]_vars


(***************************************************************************)
(* cbor::to_vec and cbor::to_writer called on a Value                      *)
(***************************************************************************)

\* the keys of tests::std::test_object_list_keys, in the order the test
\* inserts them, and the bytes it expects
list_keys ==
    <<Array(<<Pos(0)>>), Array(<<Pos(100)>>), Array(<<Neg(1)>>), Array(<<Neg(2)>>),
      Array(<<Pos(0), Pos(0)>>), Array(<<Pos(0), Neg(1)>>)>>
list_keys_bytes ==
    <<166, 129, 0, 246, 129, 24, 100, 246, 129, 32, 246, 129, 33, 246, 130, 0, 0,
      246, 130, 0, 32, 246>>

\* the keys of tests::std::test_object_object_keys
object_keys ==
    <<Map(<< <<Text(<<97>>), Null>> >>), Map(<< <<Text(<<98>>), Null>> >>),
      Map(<< <<Text(<<99>>), Null>> >>), Map(<< <<Text(<<100>>), Null>> >>),
      Map(<< <<Text(<<97, 97>>), Null>> >>),
      Map(<< <<Text(<<97>>), Null>>, <<Text(<<97, 97>>), Null>> >>)>>

\* The object of test_object_list_keys, built by inserting its keys in the
\* order of the test and in the opposite order
TestObjects ==
    {Map(ObjectOf([i \in 1..6 |-> <<list_keys[IF rev THEN 7 - i ELSE i], Null>>])) :
        rev \in BOOLEAN}

\* &[1, 2, 3][..] of tests::test_list
test_list == <<"Vec", [i \in 1..3 |-> <<"i64", IntOf(FALSE, NatMag(i))>>]>>

SerInputs ==
    SerValues \cup BadValues \cup {Integer(i) : i \in SmallInts} \cup TestObjects
        \cup {Float(f) : f \in TestF64s} \cup {test_list}

InitSer ==
    /\ bytes = <<>> /\ ty = Value_ty /\ orig = <<"raw", Null>>
    /\ cursor = 1 /\ CUR_DEPTH = 0 /\ stack = <<>>
    /\ pc = "idle" /\ vty = Value_ty /\ ret = OkNothing /\ nesting = 0
    /\ result = NoResult
    /\ ser_in \in SerInputs /\ ser_out = NotRun
    /\ cmp_in = <<>> /\ cmp_out = <<>>
    /\ drop_in = Null /\ calls = <<>> /\ popped = <<>>
    /\ json = JsonIdle
    /\ num = NumIdle

\* to_vec(&ser_in)
ToVec ==
    /\ ser_out = NotRun
    /\ \E r \in {to_vec(ser_in)} : ser_out' = [fn |-> "to_vec", st |-> r.st, out |-> r.out]
    /\ UNCHANGED <<deVars, ser_in, cmpVars, dropVars, json, num>>

\* to_writer(&ser_in, &mut sink) into an empty Vec: the sink keeps what was
\* written before an error
ToWriter ==
    /\ ser_out = NotRun
    /\ \E r \in {to_writer(ser_in)} : ser_out' = [fn |-> "to_writer", st |-> r.st, out |-> r.out]
    /\ UNCHANGED <<deVars, ser_in, cmpVars, dropVars, json, num>>

\* object.insert(k, Value::Null) on the Object of a Value::Map, before it
\* is serialized, with a key of the two tests
ObjectInsert ==
    /\ ser_out = NotRun
    /\ Kind(ser_in) = "Map"
    /\ Len(ser_in[2]) < MaxEntries
    /\ \E k \in Range(list_keys) \cup Range(object_keys) :
        \E r \in {insert(ser_in[2], k, Null)} :
            /\ r.st = "ok"
            /\ ser_in' = Map(r.m)
    /\ UNCHANGED <<deVars, ser_out, cmpVars, dropVars, json, num>>

NextSer == ToVec \/ ToWriter \/ ObjectInsert

SpecSer == InitSer /\ [][NextSer]_vars

(***************************************************************************)
(* json::to_string and cbor::to_vec called on values of std types          *)
(***************************************************************************)

Unit == <<"unit">>
I64(i) == <<"i64", i>>
Str(bs) == <<"String", bs>>
VecOf(items) == <<"Vec", items>>
U8s(bs) == <<"Vec", [i \in 1..Len(bs) |-> <<"u8", bs[i]>>]>>
BTreeMap(ps) == <<"BTreeMap", ps>>

\* keys of one type each, in the order of that type's Ord
KeyLists ==
    {<<Str(<<>>), Str(<<97>>)>>, <<Str(<<34, 10>>), Str(<<97, 1>>)>>,
     <<U8s(<<97>>), U8s(<<98, 99>>)>>, <<U8s(<<97>>), U8s(<<200>>)>>,
     <<I64(IntOf(TRUE, <<1>>)), I64(IntOf(FALSE, <<>>))>>,
     <<<<"bool", FALSE>>, <<"bool", TRUE>>>>,
     <<VecOf(<<>>), VecOf(<<<<"bool", TRUE>>>>)>>,
     <<BTreeMap(<<>>), BTreeMap(<< <<Str(<<97>>), Unit>> >>)>>,
     <<<<"Box", Str(<<97>>)>>, <<"Box", Str(<<98>>)>>>>,
     <<None, Some(Str(<<97>>))>>}

JsonScalars ==
    {Unit, <<"bool", TRUE>>, <<"bool", FALSE>>, <<"u8", 7>>, None,
     Str(<<>>), Str(<<97>>), Str(<<34, 92, 10, 1, 195, 169>>),
     I64(IntOf(FALSE, <<>>)), I64(IntOf(TRUE, <<1, 44>>)), I64(IntOf(FALSE, <<1, 0, 0, 0, 0>>)),
     U8s(<<1, 200>>), VecOf(<<>>)}
        \cup {<<"f64", f>> : f \in F64s}

\* the maps of up to two entries over one key list
MapsOver(ks, vs) ==
    {BTreeMap(<<>>)}
        \cup {BTreeMap(<< <<ks[i], v>> >>) : i \in 1..2, v \in vs}
        \cup {BTreeMap(<< <<ks[1], v>>, <<ks[2], w>> >>) : v \in vs, w \in vs}

FlatMaps == UNION {MapsOver(ks, {Unit, I64(IntOf(FALSE, <<7>>))}) : ks \in KeyLists}

JsonInputs ==
    JsonScalars \cup FlatMaps
        \cup {VecOf(<<m, BTreeMap(<< <<Str(<<97>>), Unit>> >>)>>) : m \in FlatMaps}
        \cup {BTreeMap(<< <<Str(<<97>>), Unit>>, <<Str(<<98>>), m>> >>) : m \in FlatMaps}
        \cup {<<"Tuple", Unit, Some(<<"Box", m>>)>> : m \in FlatMaps}

InitJson ==
    /\ bytes = <<>> /\ ty = Value_ty /\ orig = <<"raw", Null>>
    /\ cursor = 1 /\ CUR_DEPTH = 0 /\ stack = <<>>
    /\ pc = "idle" /\ vty = Value_ty /\ ret = OkNothing /\ nesting = 0
    /\ result = NoResult
    /\ ser_in \in JsonInputs /\ ser_out = NotRun
    /\ cmp_in = <<>> /\ cmp_out = <<>>
    /\ drop_in = Null /\ calls = <<>> /\ popped = <<>>
    /\ json = JsonIdle
    /\ num = NumIdle

\* json::to_string(&ser_in)
JsonToString ==
    /\ ser_out = NotRun
    /\ \E r \in {to_string(ser_in)} : ser_out' = [fn |-> "to_string", st |-> r.st, out |-> r.out]
    /\ UNCHANGED <<deVars, ser_in, cmpVars, dropVars, json, num>>

NextJson == JsonToString \/ ToVec

SpecJson == InitJson /\ [][NextJson]_vars

\* One turn of the outer loop of to_string, `match fragment`, for the
\* locals j: a scalar is written whole, a container writes its opening
\* bracket and, unless it is empty, is pushed and hands out its first child
to_string_match(j) ==
    CASE j.fragment[1] = "Panic" -> [j EXCEPT !.pc = "panic"]
      [] j.fragment[1] = "Seq" ->
            IF j.fragment[2] = <<>> THEN [j EXCEPT !.pc = "inner", !.out = @ \o <<91, 93>>]
            ELSE [pc |-> "outer", fragment |-> view(Head(j.fragment[2])),
                  stack |-> Append(j.stack, <<"Seq", Tail(j.fragment[2])>>),
                  out |-> j.out \o <<91>>]
      [] j.fragment[1] = "Map" ->
            IF j.fragment[2] = <<>> THEN [j EXCEPT !.pc = "inner", !.out = @ \o <<123, 125>>]
            ELSE The({IF key = None THEN [j EXCEPT !.pc = "err", !.out = @ \o <<123>>]
                      ELSE [pc |-> "outer", fragment |-> view(Head(j.fragment[2])[2]),
                            stack |-> Append(j.stack, <<"Map", Tail(j.fragment[2])>>),
                            out |-> j.out \o <<123>> \o escape_str(key[2]) \o <<58>>] :
                        key \in {as_str(view(Head(j.fragment[2])[1]))}})
      [] OTHER ->
            [j EXCEPT !.pc = "inner", !.out = @ \o to_string_fragment(j.fragment, <<>>, <<>>).out]

\* an inner loop that writes a comma before it closes a container
to_string_inner_comma(j) ==
    IF j.stack = <<>> THEN [j EXCEPT !.pc = "ok"]
    ELSE
    LET last == j.stack[Len(j.stack)]
        rest == SubSeq(j.stack, 1, Len(j.stack) - 1)
    IN  IF last[2] = <<>>
        THEN [j EXCEPT !.stack = rest,
                       !.out = @ \o (IF last[1] = "Seq" THEN <<44, 93>> ELSE <<44, 125>>)]
        ELSE IF last[1] = "Seq"
            THEN [pc |-> "outer", fragment |-> view(Head(last[2])),
                  stack |-> Append(rest, <<"Seq", Tail(last[2])>>), out |-> j.out \o <<44>>]
        ELSE The({IF key = None THEN [j EXCEPT !.pc = "err"]
                  ELSE [pc |-> "outer", fragment |-> view(Head(last[2])[2]),
                        stack |-> Append(rest, <<"Map", Tail(last[2])>>),
                        out |-> j.out \o <<44>> \o escape_str(key[2]) \o <<58>>] :
                    key \in {as_str(view(Head(last[2])[1]))}})

\* One turn of the inner loop of to_string, `match stack.last_mut()`: no
\* layer, return Ok(out); a layer with a next child, the comma, for a map
\* the key, and back to the outer loop; a layer without, the closing
\* bracket and stack.pop()
to_string_inner(j) ==
    IF j.stack = <<>> THEN [j EXCEPT !.pc = "ok"]
    ELSE
    LET last == j.stack[Len(j.stack)]
        rest == SubSeq(j.stack, 1, Len(j.stack) - 1)
    IN  IF last[2] = <<>>
        THEN [j EXCEPT !.stack = rest,
                       !.out = @ \o (IF last[1] = "Seq" THEN <<93>> ELSE <<125>>)]
        ELSE IF last[1] = "Seq"
            THEN [pc |-> "outer", fragment |-> view(Head(last[2])),
                  stack |-> Append(rest, <<"Seq", Tail(last[2])>>), out |-> j.out \o <<44>>]
        ELSE The({IF key = None THEN [j EXCEPT !.pc = "err"]
                  ELSE [pc |-> "outer", fragment |-> view(Head(last[2])[2]),
                        stack |-> Append(rest, <<"Map", Tail(last[2])>>),
                        out |-> j.out \o <<44>> \o escape_str(key[2]) \o <<58>>] :
                    key \in {as_str(view(Head(last[2])[1]))}})

\* the json::Value of test_round_trip_deeply_nested for n repetitions, the
\* text `{"x":[` n times and then `]}` n times, with its arrays and objects
\* as Vec and BTreeMap
RECURSIVE Deeply(_)
Deeply(n) ==
    BTreeMap(<< <<Str(<<120>>), VecOf(IF n = 1 THEN <<>> ELSE <<Deeply(n - 1)>>)>> >>)

DeeplyText(n) ==
    [i \in 1..(6 * n) |-> <<123, 34, 120, 34, 58, 91>>[((i - 1) % 6) + 1]]
        \o [i \in 1..(2 * n) |-> <<93, 125>>[((i - 1) % 2) + 1]]

\* strings that hold brackets, commas and quotes, in and around containers
Bracketed ==
    {Str(<<91, 44>>), VecOf(<<Str(<<125, 34, 93>>), Str(<<92, 91>>)>>),
     BTreeMap(<< <<Str(<<123, 44>>), VecOf(<<Str(<<93>>)>>)>> >>)}

JsonLoopInputs == JsonInputs \cup Bracketed \cup {Deeply(n) : n \in 1..MaxDeeply}

InitJsonLoop ==
    /\ bytes = <<>> /\ ty = Value_ty /\ orig = <<"raw", Null>>
    /\ cursor = 1 /\ CUR_DEPTH = 0 /\ stack = <<>>
    /\ pc = "idle" /\ vty = Value_ty /\ ret = OkNothing /\ nesting = 0
    /\ result = NoResult
    /\ ser_in \in JsonLoopInputs /\ ser_out = NotRun
    /\ cmp_in = <<>> /\ cmp_out = <<>>
    /\ drop_in = Null /\ calls = <<>> /\ popped = <<>>
    /\ json = JsonIdle
    /\ num = NumIdle

\* json::to_string(&ser_in) is entered: out and stack are empty and
\* fragment = value.begin()
ToStringBegin ==
    /\ json.pc = "idle"
    /\ json' = [pc |-> "outer", fragment |-> view(ser_in), stack |-> <<>>, out |-> <<>>]
    /\ UNCHANGED <<deVars, serVars, cmpVars, dropVars, num>>

\* the head of the outer loop
ToStringMatch ==
    /\ json.pc = "outer"
    /\ json' = to_string_match(json)
    /\ UNCHANGED <<deVars, serVars, cmpVars, dropVars, num>>

\* the head of the inner loop
ToStringInner ==
    /\ json.pc = "inner"
    /\ json' = to_string_inner(json)
    /\ UNCHANGED <<deVars, serVars, cmpVars, dropVars, num>>

NextJsonLoop == ToStringBegin \/ ToStringMatch \/ ToStringInner

SpecJsonLoop == InitJsonLoop /\ [][NextJsonLoop]_vars

(***************************************************************************)
(* The i65 conversions, called on numbers around the edges of i64, u64,    *)
(* i65 and i128                                                            *)
(***************************************************************************)

MaxNum == 12

\* magnitudes: the small ones and the ones next to 2^63, 2^64, 2^72, 2^127
NumMags ==
    {NatMag(n) : n \in 0..MaxNum}
        \cup {MagDec(I64_MAX), I64_MAX, MagInc(I64_MAX), MagInc(MagInc(I64_MAX)),
              MagDec(U64_MAX), U64_MAX, TWO_POW_64, MagInc(TWO_POW_64),
              <<1>> \o [i \in 1..9 |-> 0], I128_MAX}

I128s ==
    {IntOf(FALSE, m) : m \in NumMags}
        \cup {IntOf(TRUE, m) : m \in NumMags \ {<<>>}} \cup {I128_MIN}

I64s == {x \in I128s : I128Leq(I64_MIN, x) /\ I128Leq(x, IntOf(FALSE, I64_MAX))}
U64s == {m \in NumMags : MagCmp(m, U64_MAX) # "Greater"}

InitNum ==
    /\ bytes = <<>> /\ ty = Value_ty /\ orig = <<"raw", Null>>
    /\ cursor = 1 /\ CUR_DEPTH = 0 /\ stack = <<>>
    /\ pc = "idle" /\ vty = Value_ty /\ ret = OkNothing /\ nesting = 0
    /\ result = NoResult
    /\ ser_in = Null /\ ser_out = NotRun
    /\ cmp_in = <<>> /\ cmp_out = <<>>
    /\ drop_in = Null /\ calls = <<>> /\ popped = <<>>
    /\ json = JsonIdle
    /\ num = NumIdle

\* i65::try_from(x) for an i128 x
TryFromI128 ==
    /\ \E x \in I128s :
        num' = [fn |-> "try_from", x |-> x, out |-> i65_try_from(x), back |-> <<>>]
    /\ UNCHANGED <<deVars, serVars, cmpVars, dropVars, json>>

\* i65::from(x) for a u64 x
FromU64 ==
    /\ \E x \in U64s :
        num' = [fn |-> "from_u64", x |-> IntOf(FALSE, x), out |-> Ok(i65_from_u64(x)),
                back |-> <<>>]
    /\ UNCHANGED <<deVars, serVars, cmpVars, dropVars, json>>

\* i65::from(x) for an i64 x
FromI64 ==
    /\ \E x \in I64s :
        num' = [fn |-> "from_i64", x |-> x, out |-> Ok(i65_from_i64(x)), back |-> <<>>]
    /\ UNCHANGED <<deVars, serVars, cmpVars, dropVars, json>>

\* i128::from(out) of the i65 the last conversion gave
I128From ==
    /\ num.fn # "none" /\ num.out # ErrUnit /\ num.back = <<>>
    /\ num' = [num EXCEPT !.back = <<i65_to_i128(num.out[2])>>]
    /\ UNCHANGED <<deVars, serVars, cmpVars, dropVars, json>>

NextNum == TryFromI128 \/ FromU64 \/ FromI64 \/ I128From

SpecNum == InitNum /\ [][NextNum]_vars

(***************************************************************************)
(* Value::cmp and slice::sort on Values                                    *)
(***************************************************************************)


\* the `expected` arrays of cbor/tests.rs
integer_canonical_sort_order ==
    <<Pos(0), Pos(23), Pos(24), Pos(255), Pos(256), Pos(65535), Pos(65536),
      Integer(IntOf(FALSE, <<255, 255, 255, 255>>)),
      Neg(1), Neg(24), Neg(25), Neg(256), Neg(257), Neg(65536), Neg(65537),
      Integer(IntOf(TRUE, <<1, 0, 0, 0, 0>>))>>
string_canonical_sort_order == <<Text(<<>>), Text(<<97>>), Text(<<98>>), Text(<<97, 97>>)>>
bytes_canonical_sort_order == <<Bytes(<<>>), Bytes(<<0>>), Bytes(<<1>>), Bytes(<<0, 0>>)>>
simple_data_canonical_sort_order == <<Bool(FALSE), Bool(TRUE), Null>>
major_type_canonical_sort_order == <<Pos(0), Neg(1), Bytes(<<>>), Text(<<>>), Null>>
test_rfc_example ==
    <<Pos(10), Pos(100), Neg(1), Text(<<122>>), Text(<<97, 97>>),
      Array(<<Pos(100)>>), Array(<<Neg(1)>>), Bool(FALSE)>>

TestOrders ==
    {integer_canonical_sort_order, string_canonical_sort_order, bytes_canonical_sort_order,
     simple_data_canonical_sort_order, major_type_canonical_sort_order, test_rfc_example}

\* Values Value::cmp has to serialize and cannot
Unserializable ==
    {Tag(<<1>>, Null), Tag(<<2>>, Null),
     Array(<<Integer(IntOf(FALSE, TWO_POW_64))>>), Array(<<Integer(IntOf(TRUE, MagInc(TWO_POW_64)))>>),
     Map(<< <<Zero, Integer(IntOf(FALSE, TWO_POW_64))>> >>)}

CmpValues ==
    UNION {Range(q) : q \in TestOrders}
        \cup {Array(<<>>), Map(<<>>), Map(<< <<Zero, Null>> >>), Map(<< <<MinusOne, Null>> >>),
              Float(<<63, 248, 0, 0, 0, 0, 0, 0>>), Float(<<127, 248, 0, 0, 0, 0, 0, 1>>),
              Integer(IntOf(FALSE, TWO_POW_64)), Pos(2),
              Integer(IntOf(FALSE, U64_MAX)), Integer(IntOf(TRUE, TWO_POW_64))}
        \cup Unserializable

\* [T]::sort() with Value's Ord, as an insertion sort: sort_insert puts v
\* behind the last element of the sorted q that is not greater than it
RECURSIVE sort_insert(_, _)
sort_insert(q, v) ==
    IF q = "Panic" THEN "Panic"
    ELSE IF q = <<>> THEN <<v>>
    ELSE The({IF c = "Panic" THEN "Panic"
              ELSE IF c = "Less"
                  THEN The({IF r = "Panic" THEN "Panic" ELSE Append(r, q[Len(q)]) :
                              r \in {sort_insert(SubSeq(q, 1, Len(q) - 1), v)}})
              ELSE Append(q, v) :
                c \in {cmp(v, q[Len(q)])}})

RECURSIVE sort(_)
sort(q) == IF q = <<>> THEN <<>> ELSE sort_insert(sort(SubSeq(q, 1, Len(q) - 1)), q[Len(q)])

InitCmp ==
    /\ bytes = <<>> /\ ty = Value_ty /\ orig = <<"raw", Null>>
    /\ cursor = 1 /\ CUR_DEPTH = 0 /\ stack = <<>>
    /\ pc = "idle" /\ vty = Value_ty /\ ret = OkNothing /\ nesting = 0
    /\ result = NoResult
    /\ ser_in = Null /\ ser_out = NotRun
    /\ cmp_in \in CmpValues \X CmpValues \X CmpValues
    /\ cmp_out = <<>>
    /\ drop_in = Null /\ calls = <<>> /\ popped = <<>>
    /\ json = JsonIdle
    /\ num = NumIdle

\* a.cmp(&b), b.cmp(&a), b.cmp(&c) and a.cmp(&c) for cmp_in = <<a, b, c>>
Compare ==
    /\ cmp_out = <<>>
    /\ cmp_out' = <<"cmp", cmp(cmp_in[1], cmp_in[2]), cmp(cmp_in[2], cmp_in[1]),
                    cmp(cmp_in[2], cmp_in[3]), cmp(cmp_in[1], cmp_in[3])>>
    /\ UNCHANGED <<deVars, serVars, cmp_in, dropVars, json, num>>

\* vec![a, b, c].sort(), and the sort of its outcome once more
Sort ==
    /\ cmp_out = <<>>
    /\ \E q \in {sort(cmp_in)} : cmp_out' = <<"sort", q, IF q = "Panic" THEN "Panic" ELSE sort(q)>>
    /\ UNCHANGED <<deVars, serVars, cmp_in, dropVars, json, num>>

NextCmp == Compare \/ Sort

SpecCmp == InitCmp /\ [][NextCmp]_vars


(***************************************************************************)
(* Dropping a Value: drop::safely, Array::drop and Object::drop            *)
(*                                                                         *)
(* calls is the native call stack.  A frame is [fn, items]: fn names the   *)
(* function that is running, items is what it still has to go through:     *)
(* the work-list `stack` of drop::safely, the drained elements of          *)
(* Array::drop, the entries of Object::drop, the content of a Box, and     *)
(* for the outermost frame "drop" the value the program drops.  A value    *)
(* in a frame is [path, value], the path being its position inside         *)
(* drop_in, so that two equal values at two places stay apart.             *)
(*                                                                         *)
(* drop.rs names the map variant Value::Object; cbor::Value names it Map.  *)
(***************************************************************************)

Item(p, v) == [path |-> p, value |-> v]

\* the Vec<Value> of an Array
elements(x) == [i \in 1..Len(x.value[2]) |-> Item(Append(x.path, i), x.value[2][i])]

\* the keys of the BTreeMap<Value, Value> of an Object, in key order
keys(x) == [j \in 1..Len(x.value[2]) |-> Item(Append(x.path, 2 * j - 1), x.value[2][j][1])]

\* map.values(): the values of an Object, in key order
values(x) == [j \in 1..Len(x.value[2]) |-> Item(Append(x.path, 2 * j), x.value[2][j][2])]

\* the (key, child) pairs Object::drop iterates over, flattened
entries(x) ==
    [i \in 1..(2 * Len(x.value[2])) |->
        IF i % 2 = 1 THEN keys(x)[(i + 1) \div 2] ELSE values(x)[i \div 2]]

\* the Box<Value> of a Tag
boxed(x) == Item(Append(x.path, 1), x.value[3])

\* the first match of safely: only these get a work-list
is_container(v) == Kind(v) \in {"Array", "Map", "Tag"}

\* drop::safely(value) as a call: the frame it starts, none when it returns
\* at its first match
safely(x) ==
    IF is_container(x.value) THEN <<[fn |-> "safely", items |-> <<x>>]>> ELSE <<>>

\* the call stack after the innermost call has replaced its items
Caller(items) == [calls EXCEPT ![Len(calls)].items = items]

InitDrop ==
    /\ bytes = <<>> /\ ty = Value_ty /\ orig = <<"raw", Null>>
    /\ cursor = 1 /\ CUR_DEPTH = 0 /\ stack = <<>>
    /\ pc = "idle" /\ vty = Value_ty /\ ret = OkNothing /\ nesting = 0
    /\ result = NoResult
    /\ ser_in = Null /\ ser_out = NotRun
    /\ cmp_in = <<>> /\ cmp_out = <<>>
    /\ drop_in \in DropValues
    /\ calls = <<[fn |-> "drop", items |-> <<Item(<<>>, drop_in)>>]>>
    /\ popped = <<>>
    /\ json = JsonIdle
    /\ num = NumIdle

\* The drop glue of enum Value, which has no Drop impl of its own: run by
\* whoever drops a Value, here the program and the destructor of a Box<Value>.
\* It runs the destructor of the field the variant owns.
DropGlue ==
    /\ calls # <<>>
    /\ LET f == calls[Len(calls)] IN
        /\ f.fn \in {"drop", "Box::drop"}
        /\ f.items # <<>>
        /\ LET x == Head(f.items) IN
            calls' = Caller(Tail(f.items)) \o
                CASE Kind(x.value) = "Array" -> <<[fn |-> "Array::drop", items |-> elements(x)]>>
                  [] Kind(x.value) = "Map" -> <<[fn |-> "Object::drop", items |-> entries(x)]>>
                  [] Kind(x.value) = "Tag" -> <<[fn |-> "Box::drop", items |-> <<boxed(x)>>]>>
                  [] OTHER -> <<>>
    /\ UNCHANGED <<deVars, serVars, cmpVars, drop_in, popped, json, num>>

\* Array::drop: self.0.drain(..).for_each(drop::safely), one element a step
ArrayDrop ==
    /\ calls # <<>>
    /\ LET f == calls[Len(calls)] IN
        /\ f.fn = "Array::drop"
        /\ f.items # <<>>
        /\ calls' = Caller(Tail(f.items)) \o safely(Head(f.items))
    /\ UNCHANGED <<deVars, serVars, cmpVars, drop_in, popped, json, num>>

\* Object::drop: drop::safely(key); drop::safely(child) for every entry of
\* the map, one call a step
ObjectDrop ==
    /\ calls # <<>>
    /\ LET f == calls[Len(calls)] IN
        /\ f.fn = "Object::drop"
        /\ f.items # <<>>
        /\ calls' = Caller(Tail(f.items)) \o safely(Head(f.items))
    /\ UNCHANGED <<deVars, serVars, cmpVars, drop_in, popped, json, num>>

\* One turn of `while let Some(value) = stack.pop()` in drop::safely.
\* Array: stack.extend(vec) goes through take(), so no Array::drop runs.
\* Object: stack.extend(map.values()) borrows the map, which is dropped at
\* the end of the arm and so runs Object::drop inside the loop.  The values
\* reach the work-list either moved out of the map, which then holds its
\* keys, or as copies, the map still holding every entry: both are taken.
\* Tag: stack.push(*boxed).
SafelyLoop ==
    /\ calls # <<>>
    /\ LET f == calls[Len(calls)] IN
        /\ f.fn = "safely"
        /\ f.items # <<>>
        /\ LET value == f.items[Len(f.items)]
               rest == SubSeq(f.items, 1, Len(f.items) - 1)
           IN
            /\ popped' = Append(popped, value.path)
            /\ CASE Kind(value.value) = "Array" -> calls' = Caller(rest \o elements(value))
                 [] Kind(value.value) = "Map" ->
                        \E moved \in BOOLEAN :
                            calls' = Append(Caller(rest \o values(value)),
                                            [fn |-> "Object::drop",
                                             items |-> IF moved THEN keys(value) ELSE entries(value)])
                 [] Kind(value.value) = "Tag" -> calls' = Caller(Append(rest, boxed(value)))
                 [] OTHER -> calls' = Caller(rest)
    /\ UNCHANGED <<deVars, serVars, cmpVars, drop_in, json, num>>

\* A call that has nothing left returns to its caller.
Return ==
    /\ Len(calls) > 1
    /\ calls[Len(calls)].items = <<>>
    /\ calls' = SubSeq(calls, 1, Len(calls) - 1)
    /\ UNCHANGED <<deVars, serVars, cmpVars, drop_in, popped, json, num>>

\* drop(value) has returned
DropDone == calls = <<[fn |-> "drop", items |-> <<>>]>>

NextDrop == DropGlue \/ ArrayDrop \/ ObjectDrop \/ SafelyLoop \/ Return

SpecDrop == InitDrop /\ [][NextDrop]_vars


(***************************************************************************)
(* Properties of from_slice                                                *)
(***************************************************************************)

\* C1: from_slice::<Value>(&to_vec(&v)) returns Ok(v') with v'.cmp(&v) ==
\* Equal, for every Value v, Bytes included.
C1_BinaryRoundTrip ==
    (pc = "done" /\ orig[1] = "to_vec") =>
        (result.st = "ok" /\ cmp(result.v, orig[2]) = "Equal")

\* C2: from_slice returns Err for every input in which some item lies
\* inside more than MAX_DEPTH containers.
C2_DepthCeiling ==
    (pc = "done" /\ nesting > MAX_DEPTH) => result.st = "err"

\* C3: from_slice returns Ok or Err and never panics, whatever the bytes
\* and the target type.
C3_NeverPanics ==
    result.st # "panic"

\* C4: an indefinite-length array or map, at top level or nested in an
\* array, decodes successfully to the value its definite-length encoding
\* decodes to.
C4_IndefiniteContainers ==
    (pc = "done" /\ orig[1] = "indefinite") =>
        (result.st = "ok" /\ cmp(result.v, orig[2]) = "Equal")

\* C5: an indefinite-length byte string and an indefinite-length text
\* string of major-3 chunks decode to the concatenation of their chunks.
C5_ChunkedStrings ==
    (pc = "done" /\ orig[1] = "chunked") =>
        (result.st = "ok" /\ result.v = orig[2])

\* C6: when the top-level item decoded and at least one byte is left
\* unconsumed, from_slice returns Err and no value.
C6_TrailingData ==
    (pc = "done" /\ ret.st = "ok" /\ cursor <= Len(bytes)) =>
        (result.st = "err" /\ result.v = <<>>)

\* a complete item that wrote a value, a byte left over, Err returned
C6_Witness ==
    /\ pc = "done" /\ ret.st = "ok" /\ ret.w # None
    /\ cursor <= Len(bytes)
    /\ result.st = "err"

\* C11: for every Value v that to_vec encodes, decoding to_vec(v) and
\* encoding the outcome again gives to_vec(v) byte for byte.
C11_IdempotentReencoding ==
    (pc = "done" /\ orig[1] = "to_vec") =>
        /\ result.st = "ok"
        /\ to_vec(result.v) = [st |-> "ok", out |-> bytes]


\* C15: a key that names no field of the derived struct is ignored: the
\* object decodes to what it decodes to without the entries of such keys,
\* whatever their values, and they never turn Ok into Err.
C15_UnknownFieldsIgnored ==
    (pc = "done" /\ orig[1] = "without_unknown") => result = orig[3]

\* the keys of the fields of the struct T that are not of type Option<_>
Required(T) == {T[3][i][1] : i \in {j \in 1..Len(T[3]) : T[3][j][2][1] # "Option"}}

\* the keys of the entries ps that are text strings
Seen(ps) == {ps[i].k[2] : i \in {j \in 1..Len(ps) : Kind(ps[j].k) = "Text"}}

\* C16: decoding an object into a derived struct returns Err when the key
\* of a field that is not an Option<_> is missing, and an Option<_> field
\* whose key is missing is None in the struct.
C16_MissingFields ==
    (pc = "done" /\ orig[1] \in {"struct", "without_unknown", "first_only"}) =>
        /\ Required(ty) \ Seen(orig[2]) # {} => result.st = "err"
        /\ result.st = "ok" =>
            \A i \in 1..Len(ty[3]) :
                (ty[3][i][2][1] = "Option" /\ ty[3][i][1] \notin Seen(orig[2]))
                    => result.v[3][i] = None

\* test_de: the object without "z" decodes to the Example whose n.z is None
C16_Witness ==
    /\ pc = "done" /\ ty = Example_ty /\ orig = <<"struct", BaseOf(Example_ty)>>
    /\ result = [st |-> "ok",
                 v |-> <<"Struct", "Example",
                         <<<<"String", <<88>>>>, <<"Tag::A">>, <<"Tag::B">>,
                           <<"Struct", "Nested",
                             <<Some(<<"Vec", <<<<"String", <<89>>>>, <<"String", <<89>>>>>>>>),
                               None>>>>>>>>]

\* the number of elements of the fixed-arity type T
Arity(T) == IF T[1] = "Tuple" THEN 2 ELSE T[3]

\* C17: a sequence decodes into (A, B) or [T; N] only when it has exactly
\* 2 or N elements; fewer and more give Err.
C17_Arity ==
    (pc = "done" /\ orig[1] = "arity" /\ orig[2] # Arity(ty)) => result.st = "err"

\* C18: when a field key occurs more than once, decoding returns Err or
\* the struct the first occurrences alone decode to; a later occurrence
\* never replaces an earlier one.
C18_DuplicateKeys ==
    (pc = "done" /\ orig[1] = "first_only") =>
        (orig[3].st = "err" \/ orig[3] = result)

(***************************************************************************)
(* Properties of to_vec and to_writer                                      *)
(***************************************************************************)

InRange(i) ==
    IF IsNeg(i) THEN MagCmp(Abs(i), TWO_POW_64) # "Greater"
    ELSE MagCmp(Abs(i), U64_MAX) # "Greater"

\* the argument CBOR gives an integer: i, or -(i+1) for a negative i
Argument(i) == IF IsNeg(i) THEN MagDec(Abs(i)) ELSE Abs(i)

\* the length of the shortest head that holds the argument
ShortestLen(arg) ==
    IF MagLeqNat(arg, 23) THEN 1
    ELSE 1 + SetMin({w \in {1, 2, 4, 8} : Len(arg) <= w})

\* C7: to_vec of an integer in [-2^64, 2^64-1] emits major type 0 with
\* argument i for i >= 0 and major type 1 with argument -(i+1) for i < 0,
\* in the shortest of the five forms, big-endian.
C7_IntegerEncoding ==
    (ser_out.fn = "to_vec" /\ Kind(ser_in) = "Integer" /\ InRange(ser_in[2])) =>
        /\ ser_out.st = "ok"
        /\ Len(ser_out.out) >= 1
        /\ ser_out.out[1] \div 32 = (IF IsNeg(ser_in[2]) THEN NEG_INT ELSE POS_INT)
        /\ LET p == parse_u64(ser_out.out[1] % 32, ser_out.out, 2)
           IN  p.ok /\ p.v = Argument(ser_in[2]) /\ p.pos = Len(ser_out.out) + 1
        /\ Len(ser_out.out) = ShortestLen(Argument(ser_in[2]))
        /\ (ser_in = Pos(24) => ser_out.out = <<24, 24>>)
        /\ (ser_in = Neg(5) => ser_out.out = <<36>>)
        /\ (ser_in = Neg(300) => ser_out.out = <<57, 1, 43>>)
        /\ (ser_in = Integer(IntOf(FALSE, U64_MAX)) =>
                ser_out.out = <<27, 255, 255, 255, 255, 255, 255, 255, 255>>)

\* -300 went through to_vec and came out as 39 01 2B
C7_Witness ==
    /\ ser_out.fn = "to_vec"
    /\ ser_in = Neg(300)
    /\ ser_out.out = <<57, 1, 43>>

\* whether the value holds, at any depth, an integer outside the range
RECURSIVE HasOutOfRange(_)
HasOutOfRange(v) ==
    CASE Kind(v) = "Integer" -> ~InRange(v[2])
      [] Kind(v) = "Array" -> \E i \in 1..Len(v[2]) : HasOutOfRange(v[2][i])
      [] Kind(v) = "Map" ->
            \E i \in 1..Len(v[2]) : HasOutOfRange(v[2][i][1]) \/ HasOutOfRange(v[2][i][2])
      [] OTHER -> FALSE

\* C8: to_vec and to_writer on a value holding, at any depth, an integer
\* outside [-2^64, 2^64-1] return an error and do not panic.
C8_OutOfRangeIsError ==
    (ser_out.fn # "none" /\ HasOutOfRange(ser_in)) => ser_out.st = "err"

\* whether the value is, or holds at any depth, a Tag
RECURSIVE HasTag(_)
HasTag(v) ==
    CASE Kind(v) = "Tag" -> TRUE
      [] Kind(v) = "Array" -> \E i \in 1..Len(v[2]) : HasTag(v[2][i])
      [] Kind(v) = "Map" -> \E i \in 1..Len(v[2]) : HasTag(v[2][i][1]) \/ HasTag(v[2][i][2])
      [] OTHER -> FALSE

\* C13: to_vec and to_writer of a Value that is a Tag, or holds one in an
\* array or a map, never return Ok: they fail with an error or a panic.
C13_TagNeverOk ==
    (ser_out.fn # "none" /\ HasTag(ser_in)) =>
        /\ ser_out.st \in {"err", "panic"}
        /\ ser_out.fn = "to_vec" => ser_out.out = <<>>

\* a Tag inside an array went through to_vec, which panicked
C13_Witness ==
    /\ ser_out.fn = "to_vec"
    /\ ser_in = Array(<<Tag(<<1>>, Zero)>>)
    /\ ser_out.st = "panic"

\* to_vec of the entries ps one after the other, key then value
RECURSIVE EntriesBytes(_)
EntriesBytes(ps) ==
    IF ps = <<>> THEN <<>>
    ELSE to_vec(Head(ps)[1]).out \o to_vec(Head(ps)[2]).out \o EntriesBytes(Tail(ps))

\* C14: to_vec of a Value::Map writes a definite-length header with the
\* number of entries and then the entries in strictly increasing canonical
\* key order, whatever the order of insertion; the keys of
\* test_object_list_keys come out as the test expects, and map keys come out
\* in the order test_object_object_keys expects.
C14_MapCanonicalOrder ==
    (ser_out.fn = "to_vec" /\ Kind(ser_in) = "Map" /\ ser_out.st = "ok") =>
        /\ ser_out.out = write_u64(MAP, NatMag(Len(ser_in[2]))) \o EntriesBytes(ser_in[2])
        /\ \A i \in 1..(Len(ser_in[2]) - 1) :
                cmp(ser_in[2][i][1], ser_in[2][i + 1][1]) = "Less"
        /\ {ser_in[2][i] : i \in 1..Len(ser_in[2])} = {<<k, Null>> : k \in Range(list_keys)}
                => ser_out.out = list_keys_bytes
        /\ \A i, j \in 1..Len(ser_in[2]) :
                (\E a, b \in 1..6 : /\ a < b
                                    /\ ser_in[2][i][1] = object_keys[a]
                                    /\ ser_in[2][j][1] = object_keys[b]) => i < j

\* [0, 0], [-1] and [100] were inserted in that order and came out as
\* [100], [-1], [0, 0]
C14_Witness ==
    /\ ser_out.fn = "to_vec"
    /\ ser_in = Map(<< <<Array(<<Pos(100)>>), Null>>, <<Array(<<Neg(1)>>), Null>>,
                       <<Array(<<Pos(0), Pos(0)>>), Null>> >>)
    /\ ser_out.out = <<163, 129, 24, 100, 246, 129, 32, 246, 130, 0, 0, 246>>

(***************************************************************************)
(* Properties of json::to_string                                           *)
(***************************************************************************)

\* whether the key's view is a string or bytes that are valid UTF-8
StringKey(k) ==
    \/ view(k)[1] = "Str"
    \/ view(k)[1] = "Bytes" /\ from_utf8(view(k)[2], 1)

\* whether serializing x meets a map key that is no string
RECURSIVE MeetsNonStringKey(_)
MeetsNonStringKey(x) ==
    CASE Kind(x) = "BTreeMap" ->
            \E i \in 1..Len(x[2]) : ~StringKey(x[2][i][1]) \/ MeetsNonStringKey(x[2][i][2])
      [] Kind(x) = "Vec" -> \E i \in 1..Len(x[2]) : MeetsNonStringKey(x[2][i])
      [] Kind(x) = "Tuple" -> MeetsNonStringKey(x[2]) \/ MeetsNonStringKey(x[3])
      [] Kind(x) \in {"Box", "Some"} -> MeetsNonStringKey(x[2])
      [] OTHER -> FALSE

\* C12: json::to_string returns Err exactly when it meets a map key whose
\* view is neither a string nor UTF-8-valid bytes, and fails in no other
\* way; cbor::to_vec encodes maps with keys of any serializable kind.
C12_KeyAsymmetry ==
    /\ ser_out.fn = "to_string" =>
        /\ ser_out.st \in {"ok", "err"}
        /\ ser_out.st = "err" <=> MeetsNonStringKey(ser_in)
        /\ ser_out.st = "err" => ser_out.out = <<>>
    /\ ser_out.fn = "to_vec" => ser_out.st = "ok"

\* a map keyed by integers: Err from to_string
C12_Witness ==
    /\ ser_out.fn = "to_string"
    /\ ser_in = BTreeMap(<< <<I64(IntOf(TRUE, <<1>>)), Unit>>, <<I64(IntOf(FALSE, <<>>)), Unit>> >>)
    /\ ser_out.st = "err"

(***************************************************************************)
(* Properties of Value::cmp                                                *)
(***************************************************************************)

Orderings == {"Less", "Equal", "Greater"}
Reverse(o) == IF o = "Less" THEN "Greater" ELSE IF o = "Greater" THEN "Less" ELSE o

\* C9: Value::cmp never panics and is a total order: every pair gets an
\* Ordering, b.cmp(a) is the reverse of a.cmp(b), the order is transitive,
\* and sorting a sorted list changes nothing.
C9_TotalOrder ==
    /\ (cmp_out # <<>> /\ cmp_out[1] = "cmp") =>
        /\ \A k \in 2..5 : cmp_out[k] \in Orderings
        /\ cmp_out[3] = Reverse(cmp_out[2])
        /\ (cmp_out[2] = cmp_out[4] /\ cmp_out[2] # "Equal") => cmp_out[5] = cmp_out[2]
        /\ (cmp_out[2] = "Equal") => cmp_out[5] = cmp_out[4]
    /\ (cmp_out # <<>> /\ cmp_out[1] = "sort") =>
        /\ cmp_out[2] # "Panic"
        /\ cmp_out[3] = cmp_out[2]

IndexIn(q, v) == CHOOSE i \in 1..Len(q) : q[i] = v

\* the rank the canonical order gives a kind of value
Rank(v) ==
    CASE Kind(v) = "Integer" -> IF IsNeg(v[2]) THEN 1 ELSE 0
      [] Kind(v) = "Bytes" -> 2
      [] Kind(v) = "Text" -> 3
      [] Kind(v) = "Array" -> 4
      [] Kind(v) = "Map" -> 5
      [] Kind(v) = "Tag" -> 6
      [] OTHER -> 7

Simple == <<Bool(FALSE), Bool(TRUE), Null>>

\* what the canonical order says of a and b, where it says anything
Canonical(a, b, o) ==
    /\ Rank(a) # Rank(b) => o = NatCmp(Rank(a), Rank(b))
    /\ (Kind(a) = "Integer" /\ Rank(a) = Rank(b)) => o = MagCmp(Abs(a[2]), Abs(b[2]))
    /\ (Kind(a) = Kind(b) /\ Kind(a) \in {"Bytes", "Text", "Array"} /\ Len(a[2]) # Len(b[2])) =>
            o = NatCmp(Len(a[2]), Len(b[2]))
    /\ (Kind(a) = Kind(b) /\ Kind(a) \in {"Bytes", "Text"} /\ Len(a[2]) = Len(b[2])) =>
            o = LexCmp(a[2], b[2])
    /\ (a \in Range(Simple) /\ b \in Range(Simple)) =>
            o = NatCmp(IndexIn(Simple, a), IndexIn(Simple, b))

\* C10: Value::cmp orders Values as the tests assert: by major type first,
\* integers of one sign by magnitude, strings and arrays shorter first,
\* equal-length strings bytewise, false < true < null; sorting values of
\* one test list puts them in the order of that list.
C10_CanonicalOrder ==
    /\ (cmp_out # <<>> /\ cmp_out[1] = "cmp") =>
        /\ Canonical(cmp_in[1], cmp_in[2], cmp_out[2])
        /\ \A q \in TestOrders :
            (cmp_in[1] \in Range(q) /\ cmp_in[2] \in Range(q)) =>
                cmp_out[2] = NatCmp(IndexIn(q, cmp_in[1]), IndexIn(q, cmp_in[2]))
    /\ (cmp_out # <<>> /\ cmp_out[1] = "sort") =>
        \A q \in TestOrders :
            (Range(cmp_in) \subseteq Range(q)) =>
                /\ cmp_out[2] # "Panic"
                /\ Len(cmp_out[2]) = 3
                /\ \A i \in 1..2 : IndexIn(q, cmp_out[2][i]) <= IndexIn(q, cmp_out[2][i + 1])
                /\ \A v \in Range(q) :
                    Cardinality({i \in 1..3 : cmp_out[2][i] = v})
                        = Cardinality({i \in 1..3 : cmp_in[i] = v})

\* the rank of a kind of value if all integers had the rank 0
RankUnsigned(v) == IF Kind(v) = "Integer" THEN 0 ELSE Rank(v)

\* C19 as stated: all Integers have the rank 0 and any two are ordered by
\* absolute magnitude alone; bytes have rank 2, text 3, arrays 4, maps 5,
\* null, bool and float 7; values of different rank are ordered by rank.
C19_IntegersShareRank ==
    (cmp_out # <<>> /\ cmp_out[1] = "cmp"
        /\ Kind(cmp_in[1]) # "Tag" /\ Kind(cmp_in[2]) # "Tag") =>
        /\ RankUnsigned(cmp_in[1]) # RankUnsigned(cmp_in[2])
            => cmp_out[2] = NatCmp(RankUnsigned(cmp_in[1]), RankUnsigned(cmp_in[2]))
        /\ (Kind(cmp_in[1]) = "Integer" /\ Kind(cmp_in[2]) = "Integer")
            => cmp_out[2] = MagCmp(Abs(cmp_in[1][2]), Abs(cmp_in[2][2]))

\* C19 amended: Integers >= 0 have the rank 0 and negative Integers the
\* rank 1, so an Integer >= 0 is less than every negative one; two
\* Integers of one sign are ordered by absolute magnitude; bytes have rank
\* 2, text 3, arrays 4, maps 5, null, bool and float 7; values of different
\* rank are ordered by rank.
C19_IntegersRankBySign ==
    (cmp_out # <<>> /\ cmp_out[1] = "cmp"
        /\ Kind(cmp_in[1]) # "Tag" /\ Kind(cmp_in[2]) # "Tag") =>
        /\ Rank(cmp_in[1]) # Rank(cmp_in[2])
            => cmp_out[2] = NatCmp(Rank(cmp_in[1]), Rank(cmp_in[2]))
        /\ (Kind(cmp_in[1]) = "Integer" /\ Kind(cmp_in[2]) = "Integer"
                /\ IsNeg(cmp_in[1][2]) = IsNeg(cmp_in[2][2]))
            => cmp_out[2] = MagCmp(Abs(cmp_in[1][2]), Abs(cmp_in[2][2]))
        /\ (Kind(cmp_in[1]) = "Integer" /\ Kind(cmp_in[2]) = "Integer"
                /\ ~IsNeg(cmp_in[1][2]) /\ IsNeg(cmp_in[2][2]))
            => cmp_out[2] = "Less"

\* Integer(-1).cmp(&Integer(2)) was Greater
C19_Witness ==
    /\ cmp_out # <<>> /\ cmp_out[1] = "cmp"
    /\ cmp_in[1] = Neg(1) /\ cmp_in[2] = Pos(2)
    /\ cmp_out[2] = "Greater"

\* false, -1 and 10 of the RFC example were sorted into 10, -1, false
C10_Witness ==
    /\ cmp_out # <<>> /\ cmp_out[1] = "sort"
    /\ cmp_in = <<Bool(FALSE), Neg(1), Pos(10)>>
    /\ cmp_out[2] = <<Pos(10), Neg(1), Bool(FALSE)>>


\* whether the value is built only from Null, Bool, Integer in
\* [-2^64, 2^64 - 1], Text, Array and Map
RECURSIVE Plain(_)
Plain(v) ==
    CASE Kind(v) \in {"Null", "Bool", "Text"} -> TRUE
      [] Kind(v) = "Integer" -> InRange(v[2])
      [] Kind(v) = "Array" -> \A i \in 1..Len(v[2]) : Plain(v[2][i])
      [] Kind(v) = "Map" -> \A i \in 1..Len(v[2]) : Plain(v[2][i][1]) /\ Plain(v[2][i][2])
      [] OTHER -> FALSE

\* C27: for two values built only from Null, Bool, Integer in
\* [-2^64, 2^64 - 1], Text, Array and Map, a.cmp(&b) is the bytewise
\* lexicographic comparison of to_vec(a) with to_vec(b), on the fast paths
\* as in the fallback, and a == b (cmp gives Equal) exactly when the two
\* encodings are the same bytes.
C27_CmpIsEncodingOrder ==
    (cmp_out # <<>> /\ cmp_out[1] = "cmp" /\ Plain(cmp_in[1]) /\ Plain(cmp_in[2])) =>
        \E x \in {to_vec(cmp_in[1])}, y \in {to_vec(cmp_in[2])} :
            /\ x.st = "ok" /\ y.st = "ok"
            /\ cmp_out[2] = LexCmp(x.out, y.out)
            /\ cmp_out[2] = "Equal" <=> x.out = y.out

\* "z" against "aa": the shorter text is less, as 0x61 0x7A is less than
\* 0x62 0x61 0x61
C27_Witness ==
    /\ cmp_out # <<>> /\ cmp_out[1] = "cmp"
    /\ cmp_in[1] = Text(<<122>>) /\ cmp_in[2] = Text(<<97, 97>>)
    /\ cmp_out[2] = "Less"
    /\ to_vec(cmp_in[1]).out = <<97, 122>> /\ to_vec(cmp_in[2]).out = <<98, 97, 97>>

\* C28: an integer, a string and a container whose argument is written in
\* any of the forms wide enough for it (in the head byte, or in the 1, 2, 4
\* or 8 bytes after it) decode to the value the shortest form decodes to,
\* and 0xF7 decodes to null as 0xF6 does; no form is rejected.
C28_WidthFormsAccepted ==
    (pc = "done" /\ orig[1] = "width") =>
        (result.st = "ok" /\ result.v = orig[2][2])

\* 0x18 0x05 decoded to 5
C28_Witness ==
    /\ pc = "done" /\ orig[1] = "width" /\ bytes = <<24, 5>>
    /\ result.st = "ok" /\ result.v = Pos(5)

\* what the Map builder b gives when the entries ps, of scalar keys and
\* values, are fed to it one after the other and it is finished
RECURSIVE FeedPairs(_, _)
FeedPairs(b, ps) ==
    IF ps = <<>> THEN map_finish(b)
    ELSE The({IF vk.st # "ok" \/ kv.st # "ok" THEN Err
              ELSE The({IF kd.st # "ok" THEN Err
                        ELSE The({IF vv.st # "ok" THEN Err
                                  ELSE FeedPairs(value_write(kd.b, vv.w), Tail(ps)) :
                                    vv \in {visit(kd.ty, scalar_item(Head(ps).v, 1).ev)}}) :
                            kd \in {key_done(vk.b, kv.w)}}) :
                vk \in {val_with_key(b)},
                kv \in {visit(val_with_key(b).ty,
                              scalar_item(to_vec(Head(ps).k).out, 1).ev)}})

\* C29: a map decodes into the internally tagged enum Message only if its
\* first key is the tag and the tag's value is a string that names a
\* variant; a map whose first key is another one gives Err, and so does a
\* map without the tag; every entry after the tag, one with the tag key
\* again included, goes to the map builder of the variant's type, so that
\* the outcome is the outcome of that builder fed these entries.
C29_TagFirst ==
    (pc = "done" /\ orig[1] = "tagged") =>
        LET ps == orig[2]
            first == ps # <<>> /\ ps[1].k = Text(TAG_NAME)
            V == {i \in 1..Len(ty[2]) : ps # <<>> /\ ps[1].v = to_vec(Text(ty[2][i][1])).out}
        IN  /\ result.st = "ok" => (first /\ V # {})
            /\ (ps # <<>> /\ ~first) => result.st = "err"
            /\ (\A i \in 1..Len(ps) : ps[i].k # Text(TAG_NAME)) => result.st = "err"
            /\ (first /\ V # {}) =>
                \E i \in V : \E r \in {FeedPairs(map(ty[2][i][2]).b, Tail(ps))} :
                    IF r.st = "ok"
                    THEN result.st = "ok" /\ result.v = <<"Tagged", ty[2][i][1], r.w[2]>>
                    ELSE result.st = "err"

\* {"kind": "_Response", "kind": "_Response", "id": 42} decoded to
\* _Response { id: 42 }: the second "kind" went to the variant's builder
C29_Witness ==
    /\ pc = "done" /\ orig[1] = "tagged" /\ Len(orig[2]) = 3
    /\ orig[2][1] = Pair(Text(TAG_NAME), to_vec(Text(VARIANT_Response)).out)
    /\ orig[2][2] = orig[2][1]
    /\ orig[2][3] = Pair(Text(FIELD_id), <<24, 42>>)
    /\ result.st = "ok"
    /\ result.v = <<"Tagged", VARIANT_Response,
                    <<"Struct", "__Helper__Response", << <<"u8", 42>> >>>>>>

\* C30: a sequence decodes into a derived tuple struct of n fields
\* position by position: n elements give the struct whose i-th field is the
\* i-th element, for fields of type Option<_> too, and fewer or more
\* elements give Err.
C30_TupleStructPositional ==
    (pc = "done" /\ orig[1] = "unnamed") =>
        IF Len(orig[2]) = Len(ty[3])
        THEN /\ result.st = "ok"
             /\ result.v = <<"TupleStruct", ty[2], [i \in 1..Len(ty[3]) |-> orig[2][i][2]]>>
        ELSE result.st = "err"

\* C23: every increment of CUR_DEPTH in recurse_checked is taken back
\* before that call returns, on success and on every error: whenever no
\* from_slice call is running, and when one has returned Ok or Err, the
\* counter is 0 again, and it is never below 0 nor above MAX_DEPTH + 2.
C23_DepthCounterPairing ==
    /\ (pc = "idle" \/ (pc = "done" /\ result.st # "panic")) => CUR_DEPTH = 0
    /\ CUR_DEPTH >= 0
    /\ CUR_DEPTH <= MAX_DEPTH + 2


\* The recursive encoder: a scalar as to_writer writes it, a sequence as its
\* header and the encodings of its elements in order, a map as its header
\* and, entry by entry, the encoding of the key and then of the value
RECURSIVE Naive(_)
Naive(x) ==
    The({CASE vw[1] = "Seq" ->
                write_u64(SEQ, NatMag(Len(vw[2])))
                    \o Concat([i \in 1..Len(vw[2]) |-> Naive(vw[2][i])])
           [] vw[1] = "Map" ->
                write_u64(MAP, NatMag(Len(vw[2])))
                    \o Concat([i \in 1..Len(vw[2]) |-> Naive(vw[2][i][1]) \o Naive(vw[2][i][2])])
           [] OTHER -> write_view(vw).out :
            vw \in {view(x)}})

\* C24: for a value tree without a Tag whose integers are in range, the
\* loop of to_writer ends with its stack empty, returning Ok, and has
\* written exactly what the recursive encoder writes: each container's
\* definite-length header, then its children complete and in order, each
\* key right before its value; [1, 2, 3] gives 83 01 02 03.
C24_WriterIsRecursiveEncoder ==
    (ser_out.fn # "none" /\ ~HasOutOfRange(ser_in) /\ ~HasTag(ser_in)) =>
        /\ ser_out.st = "ok"
        /\ \E r \in {Naive(ser_in)} : ser_out.out = r
        /\ ser_in = test_list => ser_out.out = <<131, 1, 2, 3>>

C24_Witness ==
    /\ ser_out.fn = "to_writer"
    /\ ser_in = Map(<< <<Zero, Array(<<Zero, MinusOne>>)>> >>)
    /\ ser_out.out = <<161, 0, 130, 0, 32>>


(***************************************************************************)
(* Properties of json::to_string                                           *)
(***************************************************************************)

\* out[i] is a quote that opens or closes a string: one with an even
\* number of backslashes right before it
IsQuote(out, i) ==
    /\ out[i] = 34
    /\ SetMax({k \in 0..(i - 1) : \A d \in 1..k : out[i - d] = 92}) % 2 = 0

\* out[i] lies outside the strings of the text
Structural(out, i) ==
    /\ out[i] # 34
    /\ Cardinality({q \in 1..(i - 1) : IsQuote(out, q)}) % 2 = 0

\* the brackets written and not yet closed
Unclosed(out) ==
    Cardinality({i \in 1..Len(out) : Structural(out, i) /\ out[i] \in {91, 123}})
        - Cardinality({i \in 1..Len(out) : Structural(out, i) /\ out[i] \in {93, 125}})

\* C25: at every head of the two loops of to_string the stack holds as many
\* layers as brackets are written and not yet closed; a comma outside the
\* strings never follows an opening bracket and never precedes a closing
\* one; to_string returns Ok only with the stack empty, so that its output
\* is balanced and is what the whole function gives, and the deeply nested
\* text of the test comes out as itself.
C25_StackMatchesOutput ==
    /\ json.pc \in {"outer", "inner", "ok"} => Len(json.stack) = Unclosed(json.out)
    /\ json.pc \in {"outer", "inner", "ok"} =>
        \A i \in 1..Len(json.out) :
            (Structural(json.out, i) /\ json.out[i] = 44) =>
                /\ i > 1
                /\ json.out[i - 1] \notin {91, 123}
                /\ i < Len(json.out) => json.out[i + 1] \notin {93, 125}
    /\ json.pc = "ok" =>
        /\ json.stack = <<>>
        /\ \E r \in {to_string(ser_in)} : r.st = "ok" /\ r.out = json.out
        /\ \A n \in 1..MaxDeeply : ser_in = Deeply(n) => json.out = DeeplyText(n)

C25_Witness ==
    /\ json.pc = "ok" /\ ser_in = Deeply(MaxDeeply) /\ json.out = DeeplyText(MaxDeeply)


(***************************************************************************)
(* Properties of the i65 conversions                                       *)
(***************************************************************************)

\* -2^64 <= x <= 2^64 - 1
InI65Range(x) ==
    /\ I128Leq(IntOf(TRUE, TWO_POW_64), x)
    /\ I128Leq(x, IntOf(FALSE, U64_MAX))

\* C26: i65::try_from(x) is Ok exactly for x in [-2^64, 2^64 - 1], and then
\* i128::from of it is x again; {negative: true, abs: 0} comes out of
\* try_from(-2^64) only, never out of From<u64> or From<i64>, and zero
\* always becomes {negative: false, abs: 0}.
C26_I65Conversions ==
    /\ num.fn = "try_from" => (num.out # ErrUnit <=> InI65Range(num.x))
    /\ (num.fn = "try_from" /\ num.back # <<>>) => num.back[1] = num.x
    /\ (num.fn # "none" /\ num.out = Ok(i65_MIN)) =>
            (num.fn = "try_from" /\ num.x = IntOf(TRUE, TWO_POW_64))
    /\ (num.fn # "none" /\ num.x = IntOf(FALSE, <<>>)) => num.out = Ok(i65_ZERO)

C26_Witness ==
    /\ num.fn = "try_from" /\ num.x = IntOf(TRUE, TWO_POW_64)
    /\ num.out = Ok(i65_MIN) /\ num.back = <<num.x>>

(***************************************************************************)
(* Properties of the float encoding                                        *)
(***************************************************************************)

\* the finite f64 f is a value of the float format with eb exponent bits
\* and mb mantissa bits: zero, a normal number of that exponent range whose
\* mantissa fits, or a multiple of the least subnormal below the range
Representable(f, eb, mb) ==
    LET E == BitsNat(SubSeq(f, 2, 12))
        M == SubSeq(f, 13, 64)
        e == E - 1023
        bias == 2 ^ (eb - 1) - 1
        k == e - (1 - bias - mb)
    IN  IF E = 0 THEN AllZero(M)
        ELSE IF e > bias THEN FALSE
        ELSE IF e >= 1 - bias THEN AllZero(SubSeq(M, mb + 1, 52))
        ELSE k >= 0 /\ AllZero(SubSeq(M, k + 1, 52))

\* C22: to_vec writes a finite float in the narrowest of the half, single
\* and double widths that holds exactly its value, the written float
\* converting back to the same f64, and writes the infinities and every
\* NaN as F9 7C 00, F9 FC 00 and F9 7E 00; 12.3, 4000.5 and 42.5 come out
\* as in the tests.
C22_FloatWidth ==
    (ser_out.fn # "none" /\ Kind(ser_in) = "Float") =>
        /\ ser_out.st = "ok"
        /\ \E f \in {BitsOf(ser_in[2])}, out \in {ser_out.out} :
            IF is_nan(f) THEN out = <<249, 126, 0>>
            ELSE IF is_infinite(f)
                THEN out = IF f[1] = 0 THEN <<249, 124, 0>> ELSE <<249, 252, 0>>
            ELSE IF Representable(f, 5, 10)
                THEN out[1] = 249 /\ Len(out) = 3 /\ Widen(BitsOf(Tail(out)), 5, 10) = f
            ELSE IF Representable(f, 8, 23)
                THEN out[1] = 250 /\ Len(out) = 5 /\ Widen(BitsOf(Tail(out)), 8, 23) = f
            ELSE out = <<251>> \o ser_in[2]
        /\ ser_in[2] = F64_12_3 => ser_out.out = <<251>> \o F64_12_3
        /\ ser_in[2] = F64_4000_5 => ser_out.out = <<250, 69, 122, 8, 0>>
        /\ ser_in[2] = F64_42_5 => ser_out.out = <<249, 81, 80>>

C22_Witness ==
    /\ ser_in = Float(F64_42_5) /\ ser_out.fn = "to_vec" /\ ser_out.out = <<249, 81, 80>>


\* The Visitor methods the visitor of Place<T> defines itself
Overrides(T) ==
    CASE T[1] = "Value" -> {"null", "boolean", "string", "int", "float", "seq", "map"}
      [] T[1] = "unit" -> {"null"}
      [] T[1] = "bool" -> {"boolean"}
      [] T[1] = "String" -> {"string"}
      [] T[1] = "u8" -> {"int"}
      [] T[1] = "Tuple" -> {"seq"}
      [] T[1] \in {"Enum", "Struct"} -> {"map"}

\* null taken as a map without entries: the derived struct finishes when
\* every field is an Option, the derived enum finishes having written
\* nothing
NullAsEmptyMap(T) ==
    /\ "map" \in Overrides(T)
    /\ T[1] = "Struct" => \A i \in 1..Len(T[3]) : T[3][i][2][1] = "Option"

\* the bytes xs fed one by one as int to the elements of the sequence of T
FedAsInts(T, xs) ==
    IF "seq" \notin Overrides(T) THEN Err
    ELSE IF T[1] = "Value"
        THEN OkW(Array([i \in 1..Len(xs) |-> Integer(IntOf(FALSE, NatMag(xs[i])))]))
    ELSE IF T[2] = <<"u8">> /\ T[3] = <<"u8">> /\ Len(xs) = 2
        THEN OkW(<<"Tuple", <<"u8", xs[1]>>, <<"u8", xs[2]>>>>)
    ELSE Err

\* C21: a Visitor method left at its default rejects boolean, string, int,
\* float, seq and map; the default null succeeds exactly when map() succeeds
\* and the finish of that map without a key succeeds; the default bytes
\* opens seq(), feeds every byte in order as an int to the next element and
\* finishes, failing when a step fails.
C21_VisitorDefaults ==
    (pc = "done" /\ orig[1] = "event" /\ orig[2][1] \notin Overrides(ty)) =>
        CASE orig[2][1] = "null" -> (ret.st = "ok") <=> NullAsEmptyMap(ty)
          [] orig[2][1] = "bytes" -> ret = FedAsInts(ty, orig[2][2])
          [] OTHER -> ret = Err

C21_Witness ==
    /\ pc = "done" /\ orig = <<"event", <<"bytes", <<7, 200>>>>>> /\ ty = Tuple_u8_u8
    /\ ret = OkW(<<"Tuple", <<"u8", 7>>, <<"u8", 200>>>>)


(***************************************************************************)
(* Properties of drop                                                      *)
(***************************************************************************)

\* what a value owns directly
children(x) ==
    CASE Kind(x.value) = "Array" -> elements(x)
      [] Kind(x.value) = "Map" -> entries(x)
      [] Kind(x.value) = "Tag" -> <<boxed(x)>>
      [] OTHER -> <<>>

\* every value transitively contained in x
RECURSIVE Contained(_)
Contained(x) ==
    Range(children(x)) \cup UNION {Contained(c) : c \in Range(children(x))}

\* the values the destructor of x hands to drop::safely
RECURSIVE Handed(_)
Handed(x) ==
    CASE Kind(x.value) \in {"Array", "Map"} -> Range(children(x))
      [] Kind(x.value) = "Tag" -> Handed(boxed(x))
      [] OTHER -> {}

\* the values a work-list is owed for when v is dropped: the containers
\* handed to drop::safely and everything inside them
Worklisted(v) ==
    UNION {{c} \cup Contained(c) : c \in {h \in Handed(Item(<<>>, v)) : is_container(h.value)}}

Pops(p) == Cardinality({i \in 1..Len(popped) : popped[i] = p})

\* C20: dropping a value runs the work-list of drop::safely: nothing is
\* called from inside its loop, so a safely call is always the innermost
\* native call and no destructor of a nested container runs inside the one
\* of its parent, and when the drop has returned every value contained in a
\* container handed to drop::safely has been popped exactly once.
C20_NonRecursiveDrop ==
    /\ \A i \in 1..Len(calls) : calls[i].fn = "safely" => i = Len(calls)
    /\ DropDone => \A x \in Worklisted(drop_in) : Pops(x.path) = 1

====
